---- MODULE Spec2Model ----
(***************************************************************************)
(* Kavak sales agent: the fuzzy entity resolver (src/tools/car_search.py)  *)
(* and the response orchestrator (src/agent/kavak_agent.py).               *)
(*                                                                         *)
(* Text is a TLA+ string, one character per Python code point.  The        *)
(* module is kept in ASCII, so every non-ASCII code point of the source    *)
(* is written as one ASCII stand-in character, named below.                *)
(***************************************************************************)
EXTENDS Integers, Sequences, FiniteSets, TLC

(***************************************************************************)
(* Code points.                                                            *)
(***************************************************************************)
\* MEXICAN_CONFIG["emojis"], config.py:119-128 (one code point each)
EMOJI_CAR      == "#"
EMOJI_MONEY    == "="
EMOJI_PHONE    == "~"
EMOJI_HAPPY    == ")"
EMOJI_CHECK    == "+"
EMOJI_ERROR    == "^"
EMOJI_THINKING == "&"
EMOJI_SEARCH   == "@"
\* the arrows emoji of SPANISH_ERROR_RESPONSES["empty_response"]; not in the set
EMOJI_REFRESH  == "<"

\* accented lower-case letters: a-acute "{", e-acute "}", e-diaeresis "|",
\* i-acute "[", o-acute "]".
AccentedLetters == {"{", "}", "|", "[", "]"}

\* The string literals of kavak_agent.py hold mis-decoded text: every accented
\* letter, inverted mark, bullet and emoji typed into that file is stored as
\* the two to four Latin code points of its UTF-8 bytes (the face emoji of the
\* continuation prompt is four code points, none of them an emoji).  Those
\* code points are written by class:
\*   "$"  A-tilde (U+00C3), upper case, first code point of a mis-decoded accent
\*   ";"  the other upper-case letters (U+00C2, U+0178, U+0160)
\*   "%"  lower-case letters (U+00E2, U+00E3, U+00F0), also what "$" and ";" lower to
\*   "/"  caseless symbols (U+00A1, U+00A2, U+00A9, U+00AD, U+00BF, U+20AC, U+02DC)
\* No test the program makes tells two code points of one class apart.
MisdecodedUpper == {"$", ";"}
MisdecodedLower == "%"

UpperAZ == "ABCDEFGHIJKLMNOPQRSTUVWXYZ"
LowerAZ == "abcdefghijklmnopqrstuvwxyz"
Digits  == "0123456789"
\* the word characters in code point order (digits < A-Z < _ < a-z < accented)
CodeOrder == Digits \o UpperAZ \o "_" \o LowerAZ \o "{}|[]"

CharAt(s, i) == SubSeq(s, i, i)
CharSet(s) == {CharAt(s, i) : i \in 1..Len(s)}

UpperSet == CharSet(UpperAZ)
WordSet  == CharSet(CodeOrder)
SpaceSet == {" ", "\n", "\t", "\r"}
\* str.lower on one upper-case code point
LowerOf == [c \in UpperSet |-> CharAt(LowerAZ, CHOOSE i \in 1..Len(UpperAZ) : CharAt(UpperAZ, i) = c)]
\* the code point of a word character, as its rank in CodeOrder
Ord == [c \in WordSet |-> CHOOSE i \in 1..Len(CodeOrder) : CharAt(CodeOrder, i) = c]

\* str.isspace
IsSpace(c) == c \in SpaceSet
\* regex \w on str patterns (Unicode aware: accented letters are word characters)
IsWord(c) == c \in WordSet \/ c \in MisdecodedUpper \/ c = MisdecodedLower

Max(a, b) == IF a >= b THEN a ELSE b
Min(a, b) == IF a <= b THEN a ELSE b
MinOf(S) == CHOOSE x \in S : \A y \in S : x <= y
MaxOf(S) == CHOOSE x \in S : \A y \in S : x >= y

\* F(v) with v evaluated once
Let1(v, F(_)) == CHOOSE r \in {F(x) : x \in {v}} : TRUE

\* "".join(parts[lo..hi])
RECURSIVE JoinRange(_, _, _)
JoinRange(parts, lo, hi) ==
    IF lo > hi THEN ""
    ELSE IF lo = hi THEN parts[lo]
    ELSE LET mid == (lo + hi) \div 2
         IN JoinRange(parts, lo, mid) \o JoinRange(parts, mid + 1, hi)
Join(parts) == JoinRange(parts, 1, Len(parts))

\* str.lower
LowerChar(c) ==
    IF c \in UpperSet THEN LowerOf[c] ELSE IF c \in MisdecodedUpper THEN MisdecodedLower ELSE c
Lower(s) == Join([i \in 1..Len(s) |-> LowerChar(CharAt(s, i))])

\* str.strip
Strip(s) ==
    LET n == Len(s)
        Blank(lo, hi) == \A j \in lo..hi : IsSpace(CharAt(s, j))
    IN IF Blank(1, n) THEN ""
       ELSE SubSeq(s, CHOOSE i \in 1..n : ~IsSpace(CharAt(s, i)) /\ Blank(1, i - 1),
                      CHOOSE i \in 1..n : ~IsSpace(CharAt(s, i)) /\ Blank(i + 1, n))

\* the `in` operator on str: k is a substring of s
Contains(s, k) == \E i \in 1..(Len(s) - Len(k) + 1) : SubSeq(s, i, i + Len(k) - 1) = k
\* str.startswith
StartsWith(s, k) == Len(k) <= Len(s) /\ SubSeq(s, 1, Len(k)) = k

\* s * n
RECURSIVE Repeat(_, _)
Repeat(s, n) ==
    IF n <= 0 THEN ""
    ELSE LET h == Repeat(s, n \div 2)
         IN h \o h \o (IF n % 2 = 1 THEN s ELSE "")

\* the members of a finite set of integers in ascending order
Ascending(S) == [k \in 1..Cardinality(S) |-> CHOOSE x \in S : Cardinality({y \in S : y < x}) = k - 1]

(***************************************************************************)
(* Text Normalizer and Typo Corrector (car_search.py).                     *)
(***************************************************************************)
\* re.sub(r"[^\w\s]", "", text)
RemoveSpecialChars(s) ==
    Join([i \in 1..Len(s) |->
            LET c == CharAt(s, i) IN IF IsWord(c) \/ IsSpace(c) THEN c ELSE ""])

\* mutant: the text is stripped and cleaned but not lower-cased
NormalizeKeepingCase(text) == RemoveSpecialChars(Strip(text))

\* _normalize_text on a str (a non-str argument gives "")
_normalize_text(text) == RemoveSpecialChars(Strip(Lower(text)))

\* brand_typos, in table order; every pattern is ^typo$
brand_typos == <<
    <<"nisan", "nissan">>, <<"toyoya", "toyota">>, <<"vw", "volkswagen">>,
    <<"vwv", "volkswagen">>, <<"volks", "volkswagen">>, <<"chevy", "chevrolet">>,
    <<"cheverolet", "chevrolet">>, <<"mazada", "mazda">>,
    <<"mitsubitshi", "mitsubishi">>, <<"mercedez", "mercedes">>, <<"bmw", "bmw">> >>

\* model_typos, in table order; every pattern is prefix.*
model_typos == <<
    <<"civic", "civic">>, <<"sentra", "sentra">>, <<"corolla", "corolla">>,
    <<"jetta", "jetta">>, <<"golf", "golf">>, <<"versa", "versa">>,
    <<"march", "march">>, <<"tsuru", "tsuru">>, <<"aveo", "aveo">>,
    <<"spark", "spark">> >>

\* re.search(r"^typo$", text): $ also matches before one trailing newline
BrandTypoMatches(typo, text) == text = typo \/ text = typo \o "\n"
\* re.sub(r"^typo$", correction, text)
BrandTypoSub(typo, correction, text) == correction \o SubSeq(text, Len(typo) + 1, Len(text))
\* re.match(r"prefix.*", text)
ModelTypoMatches(prefix, text) == StartsWith(text, prefix)

\* the brand loop: the first matching rule is applied, then break
ApplyBrandTypos(text) ==
    LET hits == {i \in 1..Len(brand_typos) : BrandTypoMatches(brand_typos[i][1], text)}
    IN IF hits = {} THEN text
       ELSE BrandTypoSub(brand_typos[MinOf(hits)][1], brand_typos[MinOf(hits)][2], text)

\* mutant: the model table is never consulted
NoModelRules(text) == text

\* the model loop: the first matching rule returns its correction
ApplyModelTypos(text) ==
    LET hits == {i \in 1..Len(model_typos) : ModelTypoMatches(model_typos[i][1], text)}
    IN IF hits = {} THEN text ELSE model_typos[MinOf(hits)][2]

_correct_common_typos(text) ==
    IF text = "" THEN "" ELSE ApplyModelTypos(ApplyBrandTypos(Lower(text)))

(***************************************************************************)
(* Fuzzy Matcher (car_search.py, rapidfuzz).                               *)
(***************************************************************************)
\* str.split(): the maximal runs of non-whitespace characters, left to right
Split(s) ==
    LET isTok(i) == i >= 1 /\ i <= Len(s) /\ ~IsSpace(CharAt(s, i))
        starts == Ascending({i \in 1..Len(s) : isTok(i) /\ ~isTok(i - 1)})
        ends   == Ascending({i \in 1..Len(s) : isTok(i) /\ ~isTok(i + 1)})
    IN [k \in 1..Len(starts) |-> SubSeq(s, starts[k], ends[k])]

\* a < b on str (lexicographic by code point)
StrLess(a, b) ==
    LET diff == {i \in 1..Min(Len(a), Len(b)) : CharAt(a, i) # CharAt(b, i)}
    IN IF diff = {} THEN Len(a) < Len(b)
       ELSE Ord[CharAt(a, MinOf(diff))] < Ord[CharAt(b, MinOf(diff))]

\* sorted(tokens): a token's place is the number of tokens that sort before it
SortTokens(ts) ==
    LET before(i) == {j \in 1..Len(ts) : StrLess(ts[j], ts[i]) \/ (ts[j] = ts[i] /\ j < i)}
    IN [k \in 1..Len(ts) |-> ts[CHOOSE i \in 1..Len(ts) : Cardinality(before(i)) = k - 1]]

\* " ".join(tokens)
JoinTokens(ts) == Join([k \in 1..Len(ts) |-> IF k < Len(ts) THEN ts[k] \o " " ELSE ts[k]])

\* the row of the longest-common-subsequence table for one more character c of
\* the first string: row[j] = LCS(that prefix, b[1..j])
LcsRow(c, b, prev) ==
    [j \in 1..Len(b) |->
        LET hits == {k \in 1..j : CharAt(b, k) = c}
        IN IF hits = {} THEN prev[j]
           ELSE Max(prev[j], (IF MaxOf(hits) = 1 THEN 0 ELSE prev[MaxOf(hits) - 1]) + 1)]
RECURSIVE LcsFrom(_, _, _, _)
LcsFrom(a, b, i, prev) ==
    IF i > Len(a) THEN (IF Len(b) = 0 THEN 0 ELSE prev[Len(b)])
    ELSE Let1(LcsRow(CharAt(a, i), b, prev), LAMBDA row : LcsFrom(a, b, i + 1, row))
\* the length of a longest common subsequence
Lcs(a, b) == LcsFrom(a, b, 1, [j \in 1..Len(b) |-> 0])

\* a score is the exact fraction num/den in lowest terms
RECURSIVE Gcd(_, _)
Gcd(a, b) == IF b = 0 THEN a ELSE Gcd(b, a % b)
Score(n, d) == LET g == Gcd(n, d) IN [num |-> n \div g, den |-> d \div g]
ScoreGE(s, k) == s.num >= k * s.den
ScoreLE(s, k) == s.num <= k * s.den
ScoreLess(s, t) == s.num * t.den < t.num * s.den
Score100 == Score(100, 1)

\* fuzz.ratio: 100 * (1 - indel_distance / (len1 + len2)), 100 for two empty strings
ratio(a, b) ==
    IF Len(a) + Len(b) = 0 THEN Score100
    ELSE Score(200 * Lcs(a, b), Len(a) + Len(b))

\* fuzz.token_sort_ratio
token_sort_ratio(a, b) ==
    ratio(JoinTokens(SortTokens(Split(a))), JoinTokens(SortTokens(Split(b))))

NoMatch == <<>>

\* mutant: the first key that passes the cutoff instead of the best one
ExtractFirstPassing(q, keys, cutoff) ==
    LET scores == [i \in 1..Len(keys) |-> token_sort_ratio(q, keys[i])]
        passing == {i \in 1..Len(keys) : ScoreGE(scores[i], cutoff)}
    IN IF passing = {} THEN NoMatch ELSE <<keys[MinOf(passing)], scores[MinOf(passing)]>>

\* process.extractOne(q, keys, scorer=fuzz.token_sort_ratio, score_cutoff=cutoff):
\* the first key of maximal score, none when that score is below the cutoff
extractOne(q, keys, cutoff) ==
    LET scores == [i \in 1..Len(keys) |-> token_sort_ratio(q, keys[i])]
        passing == {i \in 1..Len(keys) : ScoreGE(scores[i], cutoff)}
        top == {i \in passing : \A j \in passing : ~ScoreLess(scores[i], scores[j])}
    IN IF passing = {} THEN NoMatch ELSE <<keys[MinOf(top)], scores[MinOf(top)]>>

\* the keys of {_normalize_text(c): c for c in choices}, in insertion order
NormalizedKeys(cs) ==
    LET norm == [i \in 1..Len(cs) |-> _normalize_text(cs[i])]
        firsts == Ascending({i \in 1..Len(cs) : \A j \in 1..(i - 1) : norm[j] # norm[i]})
    IN [k \in 1..Len(firsts) |-> norm[firsts[k]]]

\* normalized_choices[key]: the last choice that normalizes to key
OriginalOf(cs, key) == cs[MaxOf({i \in 1..Len(cs) : _normalize_text(cs[i]) = key})]

\* lines 217-242: the exact match first, then the fuzzy match
BestOfChoices(q, cs, cutoff) ==
    LET keys == NormalizedKeys(cs)
        normalized_query == _normalize_text(q)
    IN IF \E i \in 1..Len(keys) : keys[i] = normalized_query
       THEN <<OriginalOf(cs, normalized_query), Score100>>
       ELSE LET result == extractOne(normalized_query, keys, cutoff)
            IN IF result = NoMatch THEN NoMatch
               ELSE <<OriginalOf(cs, result[1]), result[2]>>

\* mutant: the guard clause of lines 211-213 left out
BestMatchWithoutGuard(q, cs, cutoff) == BestOfChoices(q, cs, cutoff)

_get_best_match(q, cs, cutoff) ==
    IF q = "" \/ cs = <<>> THEN NoMatch ELSE BestOfChoices(q, cs, cutoff)

(***************************************************************************)
(* Entity Resolver (car_search.py).  A DataFrame is the sequence of its    *)
(* rows; pd.DataFrame() is the empty sequence.  A brand or model argument  *)
(* of None behaves as "": every test on them is a truthiness test.         *)
(***************************************************************************)
\* threshold: int = 75
DEFAULT_THRESHOLD == 75

\* df[col].unique().tolist(): the values of a column in order of first appearance
Unique(df, col) ==
    LET firsts == Ascending({i \in 1..Len(df) : \A j \in 1..(i - 1) : df[j][col] # df[i][col]})
    IN [k \in 1..Len(firsts) |-> df[firsts[k]][col]]

\* df[df[col] == value]
RowsWhere(df, col, value) == SelectSeq(df, LAMBDA row : row[col] = value)

\* the brand or model argument after lines 317-323
Cleaned(arg) == IF arg # "" THEN _correct_common_typos(_normalize_text(arg)) ELSE arg

\* best_brand_match, when the brand branch (line 325) is taken
BrandMatch(df, brand_arg) == _get_best_match(Cleaned(brand_arg), Unique(df, "make"), DEFAULT_THRESHOLD)

\* df_filtered after the brand branch, when it does not return
BrandFiltered(df, brand_arg) ==
    IF Cleaned(brand_arg) # "" THEN RowsWhere(df, "make", BrandMatch(df, brand_arg)[1]) ELSE df

\* best_model_match, when the model branch (line 340) is taken
ModelMatch(df_filtered, model_arg) ==
    _get_best_match(Cleaned(model_arg), Unique(df_filtered, "model"), DEFAULT_THRESHOLD)

\* mutant: the model is matched against, and filtered from, the whole catalog
SearchModelInWholeCatalog(df, brand_arg, model_arg) ==
    IF df = <<>> THEN df
    ELSE IF Cleaned(brand_arg) # "" /\ BrandMatch(df, brand_arg) = NoMatch THEN <<>>
    ELSE IF Cleaned(model_arg) # ""
         THEN IF ModelMatch(df, model_arg) = NoMatch THEN <<>>
              ELSE RowsWhere(df, "model", ModelMatch(df, model_arg)[1])
         ELSE BrandFiltered(df, brand_arg)

search_with_fuzzy_matching(df, brand_arg, model_arg) ==
    IF df = <<>> THEN df
    ELSE IF Cleaned(brand_arg) # "" /\ BrandMatch(df, brand_arg) = NoMatch THEN <<>>
    ELSE LET df_filtered == BrandFiltered(df, brand_arg)
         IN IF Cleaned(model_arg) # "" /\ df_filtered # <<>>
            THEN IF ModelMatch(df_filtered, model_arg) = NoMatch THEN <<>>
                 ELSE RowsWhere(df_filtered, "model", ModelMatch(df_filtered, model_arg)[1])
            ELSE df_filtered

(***************************************************************************)
(* Catalog load and the car search tool (car_search.py).                   *)
(***************************************************************************)
\* what pd.read_csv and the description column do with the catalog source:
\* only a readable, well-formed file gives its rows; a missing, unreadable or
\* corrupt one raises inside the try block of load_car_data
SourceStates == {"ok", "missing", "unreadable", "corrupt"}
ReadRaises(source) == source # "ok"

\* load_car_data: except Exception returns an empty DataFrame (lines 42-44), so
\* nothing is raised to the caller: [df, error]
load_car_data(source, rows) ==
    IF ReadRaises(source) THEN [df |-> <<>>, error |-> FALSE] ELSE [df |-> rows, error |-> FALSE]

\* Series.str.contains(arg, case=False) for an argument without regex operators
ContainsIgnoringCase(value, arg) == Contains(Lower(value), Lower(arg))

\* the orders in which the members of a set can be listed
RECURSIVE Orderings(_)
Orderings(S) ==
    IF S = {} THEN {<<>>}
    ELSE UNION {{<<x>> \o rest : rest \in Orderings(S \ {x})} : x \in S}

\* the rows at the given places, in that order
RowsAt(rows, places) == [k \in 1..Len(places) |-> rows[places[k]]]

\* DataFrame.sort_values("price") with the default kind="quicksort", which is
\* not a stable sort: the rows come out ascending by price, rows of equal
\* price in an order the call does not fix
sort_values_price(rows) ==
    {RowsAt(rows, places) : places \in
        {p \in Orderings(1..Len(rows)) :
            \A i \in 1..(Len(p) - 1) : rows[p[i]].price <= rows[p[i + 1]].price}}

\* DataFrame.head(n)
HeadRows(rows, n) == SubSeq(rows, 1, Min(n, Len(rows)))

\* the 5 of filtered_cars.head(5)
TOP_N == 5

\* search_cars_by_budget up to the sort: the rows within the budget (line 67)
\* and of the brand (lines 70-75; title() changes case only and the test
\* ignores case)
BudgetFiltered(rows, price, brand_arg) ==
    SelectSeq(rows, LAMBDA row :
        /\ row.price <= price
        /\ (brand_arg # "" => ContainsIgnoringCase(row.make, Strip(brand_arg))))

\* search_specific_car: which of its answers is returned, and the rows it lists
search_specific_car(loaded, brand_arg, model_arg) ==
    IF loaded.df = <<>> THEN [kind |-> "no_access", rows |-> <<>>]
    ELSE LET direct == SelectSeq(loaded.df, LAMBDA row :
                           ContainsIgnoringCase(row.make, brand_arg)
                           /\ ContainsIgnoringCase(row.model, model_arg))
             auto_encontrado == IF direct = <<>>
                                THEN search_with_fuzzy_matching(loaded.df, brand_arg, model_arg)
                                ELSE direct
         IN IF auto_encontrado = <<>> THEN [kind |-> "not_found", rows |-> <<>>]
            ELSE [kind |-> "found", rows |-> auto_encontrado]

(***************************************************************************)
(* Transport Formatter and canned responses (kavak_agent.py, config.py).   *)
(***************************************************************************)
\* Settings.RESPONSE_MAX_LENGTH
RESPONSE_MAX_LENGTH == 1500
\* the 50 of response[: settings.RESPONSE_MAX_LENGTH - 50]
RESERVED_SUFFIX_LENGTH == 50

\* MEXICAN_CONFIG["emojis"].values()
EmojiSet == {EMOJI_CAR, EMOJI_MONEY, EMOJI_PHONE, EMOJI_HAPPY, EMOJI_CHECK, EMOJI_ERROR,
             EMOJI_THINKING, EMOJI_SEARCH}

\* the continuation prompt appended to a truncated response (44 code points)
ContinuationPrompt == "...\n\n;/Te interesa saber m$/s detalles? %;/;"

\* any(k in s for k in keys)
ContainsAny(s, keys) == \E k \in keys : Contains(s, k)

\* mutant: the money rule is tried before the vehicle rule
MoneyRuleFirst(response) ==
    LET lowered == Lower(response)
    IN IF ContainsAny(lowered, {"precio", "pago", "financiamiento"})
       THEN EMOJI_MONEY \o " " \o response
       ELSE IF ContainsAny(lowered, {"auto", "carro", "veh$/culo"}) THEN EMOJI_CAR \o " " \o response
       ELSE IF ContainsAny(lowered, {"buscar", "encontrar"}) THEN EMOJI_SEARCH \o " " \o response
       ELSE EMOJI_HAPPY \o " " \o response

\* lines 235-248
_add_contextual_emoji(response) ==
    LET lowered == Lower(response)
    IN IF ContainsAny(lowered, {"auto", "carro", "veh$/culo"}) THEN EMOJI_CAR \o " " \o response
       ELSE IF ContainsAny(lowered, {"precio", "pago", "financiamiento"})
            THEN EMOJI_MONEY \o " " \o response
       ELSE IF ContainsAny(lowered, {"buscar", "encontrar"}) THEN EMOJI_SEARCH \o " " \o response
       ELSE EMOJI_HAPPY \o " " \o response

\* mutant: the prefix is cut at the maximum length, with no room for the prompt
TruncateAtMaxLength(response) ==
    IF Len(response) > RESPONSE_MAX_LENGTH
    THEN SubSeq(response, 1, RESPONSE_MAX_LENGTH) \o ContinuationPrompt
    ELSE response

\* lines 223-227
Truncate(response) ==
    IF Len(response) > RESPONSE_MAX_LENGTH
    THEN SubSeq(response, 1, RESPONSE_MAX_LENGTH - RESERVED_SUFFIX_LENGTH) \o ContinuationPrompt
    ELSE response

\* lines 229-233
InjectEmoji(response) ==
    IF ~ContainsAny(response, EmojiSet) THEN _add_contextual_emoji(response) ELSE response

_optimize_for_whatsapp(response) == InjectEmoji(Truncate(response))

\* fallback_responses of _get_fallback_response
fallback_responses == <<
    ";/Hola! Soy tu agente de Kavak " \o EMOJI_CAR
        \o "\n\nTe puedo ayudar con:\n%// Encontrar tu auto ideal\n%// Calcular financiamiento "
        \o EMOJI_MONEY
        \o "\n%// Info sobre garant$/as\n%// Agendar cita de prueba\n\n;/Qu$/ necesitas?",
    "Disculpa, tuve un problemita t$/cnico " \o EMOJI_THINKING
        \o "\n\n;/Me puedes decir qu$/ tipo de auto buscas? "
        \o "Te ayudo a encontrar las mejores opciones en Kavak.",
    ";/Perfecto! Estoy aqu$/ para ayudarte a encontrar tu auto ideal " \o EMOJI_CAR
        \o "\n\n;/Cu$/l es tu presupuesto aproximado?" >>

\* mutant: the error keywords are tested before the greeting words
FallbackErrorFirst(original_message) ==
    LET lowered == Lower(original_message)
    IN IF ContainsAny(lowered, {"error", "problema"}) THEN fallback_responses[2]
       ELSE IF ContainsAny(lowered, {"hola", "hello", "hi"}) THEN fallback_responses[1]
       ELSE fallback_responses[3]

_get_fallback_response(original_message) ==
    LET lowered == Lower(original_message)
    IN IF ContainsAny(lowered, {"hola", "hello", "hi"}) THEN fallback_responses[1]
       ELSE IF ContainsAny(lowered, {"error", "problema"}) THEN fallback_responses[2]
       ELSE fallback_responses[3]

\* SPANISH_ERROR_RESPONSES["empty_response"]
EMPTY_RESPONSE ==
    "No recib[ una respuesta del agente. Por favor, intenta de nuevo en un momento. "
        \o EMOJI_REFRESH

(***************************************************************************)
(* Orchestrator (KavakSalesAgent.process_message).  Values that come back  *)
(* from the collaborators are Python values: a str, None, or a list.       *)
(***************************************************************************)
Str(s) == [type |-> "str", s |-> s]
PyNone == [type |-> "NoneType"]
PyList(n) == [type |-> "list", len |-> n]

\* bool(v)
Truthy(v) ==
    CASE v.type = "str" -> v.s # ""
      [] v.type = "NoneType" -> FALSE
      [] v.type = "list" -> v.len > 0

\* not v or not v.strip(): "true", "false", or "raise" (AttributeError: only a str has strip)
EmptyCheck(v) ==
    IF ~Truthy(v) THEN "true"
    ELSE IF v.type # "str" THEN "raise"
    ELSE IF Strip(v.s) = "" THEN "true" ELSE "false"

\* v[:100] raises TypeError on None
Sliceable(v) == v.type \in {"str", "list"}

PyInt(n) == [type |-> "int", n |-> n]

\* _normalize_text on any argument: lines 200-201 give "" for a non-str
NormalizeArg(v) == IF v.type # "str" THEN "" ELSE _normalize_text(v.s)

\* AgentExecutor(max_iterations=3)
max_iterations == 3
\* conversation_history[-10:]
HISTORY_WINDOW == 10

\* one (action, observation) pair of intermediate_steps
Step(tool, observation) == [tool |-> tool, observation |-> observation]

\* a turn of the stored history: user and agent are Python values, absent keys are "missing"
Turn(user, agent) == [user |-> user, agent |-> agent]
Missing == [type |-> "missing"]
HasBothKeys(turn) == turn.user # Missing /\ turn.agent # Missing
\* HumanMessage(content=...) / AIMessage(content=...) accept a str or a list only
ValidContent(v) == v.type \in {"str", "list"}

\* mutant: the oldest turns are used
OldestTurns(history) == SubSeq(history, 1, Min(Len(history), HISTORY_WINDOW))

\* conversation_history[-10:] (line 208)
LastTurns(history) ==
    SubSeq(history, Max(1, Len(history) - HISTORY_WINDOW + 1), Len(history))

\* the turns _build_chat_history turns into messages
UsedTurns(history) ==
    LET last == LastTurns(history)
    IN [i \in {j \in 1..Len(last) : HasBothKeys(last[j])} |-> last[i]]

\* _build_chat_history raises when a message cannot be built from a turn
BuildHistoryRaises(history) ==
    \E i \in DOMAIN UsedTurns(history) :
        ~ValidContent(UsedTurns(history)[i].user) \/ ~ValidContent(UsedTurns(history)[i].agent)

_build_chat_history(history) ==
    LET last == LastTurns(history)
        kept == {j \in 1..Len(last) : HasBothKeys(last[j])}
        \* the k-th kept turn, in order
        Nth(k) == CHOOSE j \in kept : Cardinality({m \in kept : m < j}) = k - 1
    IN [n \in 1..(2 * Cardinality(kept)) |->
            IF n % 2 = 1
            THEN [role |-> "human", content |-> last[Nth((n + 1) \div 2)].user]
            ELSE [role |-> "ai", content |-> last[Nth(n \div 2)].agent]]

\* lines 126-140
RagToolReturnedEmpty(steps) ==
    \E i \in 1..Len(steps) : steps[i].tool = "get_kavak_info" /\ steps[i].observation = ""

\* _create_agent builds AgentExecutor(agent, tools, verbose, max_iterations,
\* early_stopping_method, handle_parsing_errors): return_intermediate_steps is
\* not passed and keeps its default
return_intermediate_steps == FALSE
\* whether the response carries "intermediate_steps": as the executor was
\* built, or always (the stub executor of test_agent_rag_fallback)
ExecutorReports == {return_intermediate_steps, TRUE}
\* the "intermediate_steps" of the response; line 127 takes an absent key and
\* an empty list the same way
ReportedSteps(reports, steps) == IF reports THEN steps ELSE <<>>

\* mutant: the executor does not count its rounds
RoundsNotCounted(trace, step) == <<step>>
\* the executor's record of the rounds made, and its max_iterations test
RoundsAfter(trace, step) == Append(trace, step)
MoreRoundsAllowed(trace) == Len(trace) < max_iterations

\* the statements of process_message inside try (lines 109-184)
TryBlock == {"build", "invoke", "inspect", "direct", "validate", "format"}
\* mutant: the direct model call is made outside the try block
CaughtExceptDirect(step) == step \in TryBlock \ {"direct"}

Caught(step) == step \in TryBlock

\* mutant: the empty final output is returned as it is
EmptyResponseEcho(final_output) == IF final_output.type = "str" THEN final_output.s ELSE ""

\* lines 171-173: what is returned for an empty final output
EmptyResponseReturn(final_output) == EMPTY_RESPONSE

(***************************************************************************)
(* History store (RedisConversationMemory, redis_memory.py).               *)
(***************************************************************************)
\* Settings.MAX_CONVERSATION_TURNS
MAX_CONVERSATION_TURNS == 10
\* ttl_seconds: int = 86400
DEFAULT_TTL == 86400

\* mutant: one key for every session
SharedConversationKey(session_id) == "kavak:conversation:"

get_conversation_key(session_id) == "kavak:conversation:" \o session_id
\* f"kavak:activity:{session_id}"
activity_key(session_id) == "kavak:activity:" \o session_id

\* a key that holds nothing (redis get gives None)
Absent == [type |-> "nil"]

\* json.dumps / json.loads on the values of a turn; a key a turn does not have
\* stays absent, and a value json cannot encode raises TypeError
Serializable(v) == v.type \in {"str", "NoneType", "int", "missing"}
JsonOf(v) ==
    CASE v.type = "str" -> [json |-> "string", chars |-> v.s]
      [] v.type = "NoneType" -> [json |-> "null"]
      [] v.type = "int" -> [json |-> "number", n |-> v.n]
      [] v.type = "missing" -> v
PyOf(j) ==
    IF j = Missing THEN j
    ELSE CASE j.json = "string" -> Str(j.chars)
           [] j.json = "null" -> PyNone
           [] j.json = "number" -> PyInt(j.n)
DumpsRaises(history) ==
    \E i \in 1..Len(history) : ~Serializable(history[i].user) \/ ~Serializable(history[i].agent)
dumps(history) ==
    [json |-> "array",
     items |-> [i \in 1..Len(history) |->
                    [user |-> JsonOf(history[i].user), agent |-> JsonOf(history[i].agent)]]]
loads(data) ==
    [i \in 1..Len(data.items) |-> Turn(PyOf(data.items[i].user), PyOf(data.items[i].agent))]

\* mutant: the oldest turns are kept
KeepFirstTurns(history) ==
    IF Len(history) > MAX_CONVERSATION_TURNS THEN SubSeq(history, 1, MAX_CONVERSATION_TURNS)
    ELSE history

\* lines 100-102
LimitTurns(history) ==
    IF Len(history) > MAX_CONVERSATION_TURNS
    THEN SubSeq(history, Len(history) - MAX_CONVERSATION_TURNS + 1, Len(history))
    ELSE history

\* connect(): the ping succeeds exactly when the server can be reached
Connect(up) == up

\* mutant: an operation never reconnects
NeverReconnect(connected) == FALSE

\* "not self.is_connected and not self.connect()": connect is called when not connected
NeedsConnect(connected) == ~connected

\* is_connected after the guard of an operation
ConnectedAfterGuard(connected, up) == IF NeedsConnect(connected) THEN Connect(up) ELSE connected

\* setex raises ResponseError for a time-to-live that is not positive
SetexRaises(ttl) == ttl <= 0

\* every operation ends in except RedisError / except Exception: nothing it
\* raises inside try leaves it
StoreHandlers == {"RedisError", "JSONDecodeError", "Exception"}
LeavesOperation(error) == error \notin StoreHandlers /\ "Exception" \notin StoreHandlers

(***************************************************************************)
(* Inputs.                                                                 *)
(***************************************************************************)
Row(make, model, year, price, stock_id) ==
    [make |-> make, model |-> model, year |-> year, price |-> price, stock_id |-> stock_id]

\* the rows of the test fixture sample_car_data, and a model whose name extends
\* another model's name
Pool == <<
    Row("Toyota", "Corolla", 2020, 350000, "T1"),
    Row("Honda", "Civic", 2021, 320000, "H1"),
    Row("Nissan", "Versa", 2019, 280000, "N1"),
    Row("Volkswagen", "Jetta", 2022, 380000, "V1"),
    Row("Toyota", "Camry", 2020, 360000, "T2"),
    Row("Toyota", "Corolla Cross", 2022, 420000, "T3") >>

\* the largest catalog drawn from the pool
MaxRows == 3

\* the catalogs: the rows of the pool at the chosen places, in pool order
Catalogs ==
    {[k \in 1..Cardinality(S) |-> Pool[Ascending(S)[k]]] :
        S \in {T \in SUBSET (1..Len(Pool)) : Cardinality(T) <= MaxRows}}

\* the catalogs of the budget search: rows with distinct prices and rows that
\* share a price, more of them than the tool lists
BudgetPool == <<
    Row("Toyota", "Corolla", 2020, 250000, "B1"),
    Row("Nissan", "Versa", 2019, 280000, "B2"),
    Row("Toyota", "Yaris", 2021, 280000, "B3"),
    Row("Honda", "City", 2018, 280000, "B4"),
    Row("Toyota", "Camry", 2020, 300000, "B5"),
    Row("Nissan", "Sentra", 2022, 300000, "B6"),
    Row("Honda", "Civic", 2021, 230000, "B7") >>
BudgetCatalogs ==
    {<<>>} \cup
    {[k \in 1..Cardinality(S) |-> BudgetPool[Ascending(S)[k]]] :
        S \in {T \in SUBSET (1..Len(BudgetPool)) : Cardinality(T) >= TOP_N}}
BudgetBrands == {"", "Toyota", " nissan "}
BudgetPrices == {200000, 280000, 300000}

BrandArgs == {"", "Toyota", "Honda", "Nissan", "Volkswagen", "Nisan", "Toyot", "Toy]ta",
              "vw", "Ferrari", "Nonexistent", "?!"}
ModelArgs == {"", "Corolla", "Civic", "Versa", "Jetta", "Camry", "Corolla Cross",
              "Corola", "Cor]lla", "Car", "--"}

\* candidate lists for the matcher: the list of test_get_best_match, brand
\* lists, two spellings of one brand, and a candidate without a word character
ChoiceLists == {
    <<>>,
    <<"Toyota Corolla", "Honda Civic", "Nissan Versa", "Volkswagen Jetta">>,
    <<"Toyota", "Honda", "Nissan", "Volkswagen">>,
    <<"Toyota", "TOYOTA">>,
    <<"Seat", "Fiat", "-">>,
    <<"Mercedes Benz", "Land Rover">> }
Queries == {"", "Toyota Corolla", "Toyta Corola", "Toy]ta Cor]lla", "Ferrari", "Toyota",
            "toyota", "nisan", "nixxan", "Benz Mercedes", "feat", "fiat", "?", " ",
            "honda  civic", "Volkswagen Jeta!"}
Thresholds == {0, DEFAULT_THRESHOLD, 100}

\* arguments for _normalize_text: the strings of test_normalize_text between
\* paddings, and arguments that are not strings
NormalizePads == {"", " ", "  ", "-", "! "}
NormalizeCores == {"Toyota-Corolla 2023!", "Honda   Civic", "Volkswagen J|tt{", "N/A", "",
                   "a_b", "vw\tgolf", "Mazda 3"}
NormalizeInputs ==
    {Str(p \o c \o q) : p \in NormalizePads, c \in NormalizeCores, q \in NormalizePads}
        \cup {PyNone, PyList(0), PyList(1), PyInt(2023)}

\* arguments for _correct_common_typos: the tokens of the tests and of the two
\* tables, bare and with a trailing trim, year or letter
TypoBases == {brand_typos[i][1] : i \in 1..Len(brand_typos)}
                \cup {model_typos[i][1] : i \in 1..Len(model_typos)}
                \cup {"toyota", "yaris", "jeta", "nissan", "Nisan", ""}
TypoSuffixes == {"", " lx", " 2020", "s", "\n"}
TypoTokens == {b \o x : b \in TypoBases, x \in TypoSuffixes}

\* arguments of the car search tool (words without regex operators)
ToolBrands == {"Toyota", "toyota", "Nisan", "Ferrari"}
ToolModels == {"Corolla", "Versa", "Civic", "Tsuru"}

\* messages for _get_fallback_response: a greeting or none, an error keyword
\* or none, in both orders, with other words around them
FallbackGreetings == {"", "Hola", "HELLO", "hi", "Vehiculo", "ola"}
FallbackErrors == {"", "error", "Problema", "ERRORES", "eror"}
FallbackTails == {"", ", busco un auto", "!\n"}
FallbackMessages ==
    {g \o " " \o e \o t : g \in FallbackGreetings, e \in FallbackErrors, t \in FallbackTails}
        \cup {e \o " " \o g \o t : g \in FallbackGreetings, e \in FallbackErrors, t \in FallbackTails}

\* inbound messages
Messages == {"Hola, busco un auto", "Hubo un ERROR con mi pago", "Quiero ver un Nissan Versa",
             "Cu{l es el proceso de compra en Kavak?", ""}

OkTurn(n) == Turn(Str("pregunta " \o ToString(n)), Str("respuesta " \o ToString(n)))
\* stored histories: none, short, a turn without the agent key, a turn whose
\* content is None, and one longer than the window
Histories == {<<>>,
              <<OkTurn(1)>>,
              <<OkTurn(1), Turn(Str("pregunta 2"), Missing)>>,
              <<OkTurn(1), Turn(Str("pregunta 2"), PyNone)>>,
              [n \in 1..(HISTORY_WINDOW + 2) |-> OkTurn(n)]}

\* sessions and histories given to the history store; the last history holds a
\* value json cannot encode
StoreSessions == {"test_session", "whatsapp_+5215512345678"}
StoreHistories == {<<>>,
                   <<OkTurn(1)>>,
                   <<OkTurn(1), Turn(Str("pregunta 2"), Missing), Turn(Str("pregunta 3"), PyNone)>>,
                   [n \in 1..MAX_CONVERSATION_TURNS |-> OkTurn(n)],
                   [n \in 1..(MAX_CONVERSATION_TURNS + 2) |-> OkTurn(n)],
                   <<Turn(Missing, Str("respuesta 1"))>>,
                   <<Turn(Str("Hola"), [type |-> "datetime"])>>}
TtlValues == {DEFAULT_TTL, 0}
\* the number of store operations and server changes of one run
MaxOps == 3

\* final outputs of the tool-augmented model call
AgentOutputs == {Str("Te explico sobre la garant[a de Kavak"),
                 Str("Tenemos un Nissan Versa 2020 " \o EMOJI_CAR),
                 Str(Repeat("El precio es bueno. ", 80)),
                 Str(""), Str(" \n "), PyNone, PyList(0), PyList(1)}

\* tool calls of one run
ToolSteps == {Step("get_kavak_info", ""),
              Step("get_kavak_info", "Kavak ofrece garant[a de 3 meses"),
              Step("search_specific_car", EMOJI_SEARCH \o " No encontr} ese auto en nuestro cat{logo.")}
SeqsUpTo(S, n) == UNION {[1..k -> S] : k \in 0..n}
Traces == SeqsUpTo(ToolSteps, max_iterations)

\* what the direct model call gives back: no object (None), or an object with this content
DirectResults == {PyNone,
                  Str("Respuesta directa del LLM como fallback"),
                  Str(""), Str("   "), PyList(0), PyList(1)}

\* texts for the formatter: a head, filler up to a length, a tail
TextHeads == {"", "El auto ", "Precio. Pago ", "Hola. ", EMOJI_CAR \o " ", EMOJI_REFRESH \o " ",
              "Precio del Carro ", "Buscar pago ", "Encontrar "}
TextTails == {"", ".", EMOJI_HAPPY}
\* the longest text given to the formatter
MaxTextLength == 1600
TextLengths == {20, RESPONSE_MAX_LENGTH - RESERVED_SUFFIX_LENGTH, RESPONSE_MAX_LENGTH - 2,
                RESPONSE_MAX_LENGTH - 1, RESPONSE_MAX_LENGTH, RESPONSE_MAX_LENGTH + 1,
                RESPONSE_MAX_LENGTH + 2, MaxTextLength}
TextOfLength(head, tail, n) == head \o Repeat("x", n - Len(head) - Len(tail)) \o tail
FormatterTexts == {TextOfLength(h, t, n) : h \in TextHeads, t \in TextTails, n \in TextLengths}

\* the strings one single-character edit away from s, over a set of characters
Edits(s, chars) ==
    {SubSeq(s, 1, i - 1) \o SubSeq(s, i + 1, Len(s)) : i \in 1..Len(s)}
    \cup {SubSeq(s, 1, i - 1) \o c \o SubSeq(s, i + 1, Len(s)) : i \in 1..Len(s), c \in chars}
    \cup {SubSeq(s, 1, i) \o c \o SubSeq(s, i + 1, Len(s)) : i \in 0..Len(s), c \in chars}
\* the strings within edit distance 2 of s
WithinTwoEdits(s, chars) ==
    {s} \cup Edits(s, chars) \cup UNION {Edits(t, chars) : t \in Edits(s, chars)}
\* the characters typed by mistake: a letter, a space, a punctuation mark
EditChars == {"x", " ", "-"}
\* the brands of the test fixture, and a catalog with a misspelt duplicate brand
BrandLists == {
    <<"Toyota", "Honda", "Nissan", "Volkswagen">>,
    <<"Chevrolet", "Cheverolet", "Kia">> }

VARIABLES
    \* _get_best_match under test: its arguments and what it returned
    query, choices, threshold, best,
    \* search_with_fuzzy_matching under test: its arguments and what it returned
    df, brand, model, found, max_price,
    \* the place in choices of the brand a mistyped query was derived from, or 0
    target,
    \* _optimize_for_whatsapp under test: its argument and what it returned
    text, formatted,
    \* process_message: its arguments, its locals, what it returned, the step that
    \* raised, and how often each model was called
    message, conversation_history, chat_history_for_agent, agent_executor_response,
    agent_final_output, rag_tool_returned_empty, returned, raised_at,
    executor_calls, llm_calls,
    \* the tool calls the tool-augmented model made in this pass
    tool_trace,
    \* _normalize_text and _correct_common_typos under test: argument and result
    raw, normalized, token, corrected,
    \* the catalog source, what load_car_data gave, and the car search tool's answer
    source, csv_rows, loaded, tool_result,
    \* the history store: whether the server can be reached, the fields of the
    \* RedisConversationMemory object, the keys of the server, the last operation
    \* and what it returned, the history last saved per session, the operations so far
    server_up, is_connected, ttl_seconds, redis_data, last_op, saved, op_count,
    \* the webhook: the module's conversation_memory dict (session key to list
    \* object), the list objects, the requests and their locals, the last step
    conversation_memory, lists, requests, last_request,
    \* where the run is
    pc

matchVars == <<query, choices, threshold, best, target>>
searchVars == <<df, brand, model, found, max_price>>
formatVars == <<text, formatted>>
agentVars == <<message, conversation_history, chat_history_for_agent, agent_executor_response,
               agent_final_output, rag_tool_returned_empty, returned, raised_at,
               executor_calls, llm_calls, tool_trace>>
vars == <<query, choices, threshold, best, target, df, brand, model, found, max_price, text, formatted,
          message, conversation_history, chat_history_for_agent, agent_executor_response,
          agent_final_output, rag_tool_returned_empty, returned, raised_at,
          executor_calls, llm_calls, tool_trace, raw, normalized, token, corrected,
          source, csv_rows, loaded, tool_result,
          server_up, is_connected, ttl_seconds, redis_data, last_op, saved, op_count,
          conversation_memory, lists, requests, last_request, pc>>

IdleMatch ==
    query = "" /\ choices = <<>> /\ threshold = DEFAULT_THRESHOLD /\ best = NoMatch /\ target = 0
IdleSearch == df = <<>> /\ brand = "" /\ model = "" /\ found = <<>> /\ max_price = 0
IdleFormat == text = "" /\ formatted = ""
textVars == <<raw, normalized, token, corrected>>
loadVars == <<source, csv_rows, loaded, tool_result>>
NotLoaded == [df |-> <<>>, error |-> FALSE]
NoToolResult == [kind |-> "none", rows |-> <<>>]
IdleLoad == source = "ok" /\ csv_rows = <<>> /\ loaded = NotLoaded /\ tool_result = NoToolResult
storeVars == <<server_up, is_connected, ttl_seconds, redis_data, last_op, saved, op_count>>
NoOp == [op |-> "none"]
NotSaved == [type |-> "none"]
Saved(history) == [type |-> "history", turns |-> history]
webhookVars == <<conversation_memory, lists, requests, last_request>>
NoRequest == [op |-> "none"]
IdleWebhook ==
    conversation_memory = <<>> /\ lists = <<>> /\ requests = <<>> /\ last_request = NoRequest
IdleStore ==
    /\ server_up = TRUE /\ is_connected = FALSE /\ ttl_seconds = DEFAULT_TTL
    /\ redis_data = <<>> /\ last_op = NoOp /\ saved = <<>> /\ op_count = 0
IdleText == raw = Str("") /\ normalized = "" /\ token = "" /\ corrected = ""
NoResponse == [output |-> Str(""), intermediate_steps |-> <<>>]
AgentLocalsUnset ==
    /\ chat_history_for_agent = <<>>
    /\ agent_executor_response = NoResponse
    /\ agent_final_output = Str("")
    /\ rag_tool_returned_empty = FALSE
    /\ returned = ""
    /\ raised_at = "none"
    /\ executor_calls = 0
    /\ llm_calls = 0
    /\ tool_trace = <<>>
IdleAgent == message = "" /\ conversation_history = <<>> /\ AgentLocalsUnset

(***************************************************************************)
(* The fuzzy matcher, applied to every query, candidate list and threshold *)
(***************************************************************************)
InitMatch ==
    /\ query \in Queries
    /\ choices \in ChoiceLists
    /\ threshold \in Thresholds
    /\ best = NoMatch
    /\ target = 0
    /\ pc = "call"
    /\ IdleSearch /\ IdleFormat /\ IdleAgent /\ IdleText /\ IdleLoad /\ IdleStore /\ IdleWebhook

CallBestMatch ==
    /\ pc = "call"
    /\ best' = _get_best_match(query, choices, threshold)
    /\ pc' = "done"
    /\ UNCHANGED <<query, choices, threshold, target, searchVars, formatVars, agentVars, textVars, loadVars, storeVars, webhookVars>>

NextMatch == CallBestMatch
SpecMatch == InitMatch /\ [][NextMatch]_vars

(***************************************************************************)
(* The fuzzy matcher, applied to the mistyped brands of a catalog          *)
(***************************************************************************)
InitTypo ==
    /\ choices \in BrandLists
    /\ target \in 1..Len(choices)
    /\ query \in WithinTwoEdits(Lower(choices[target]), EditChars)
    /\ threshold = DEFAULT_THRESHOLD
    /\ best = NoMatch
    /\ pc = "call"
    /\ IdleSearch /\ IdleFormat /\ IdleAgent /\ IdleText /\ IdleLoad /\ IdleStore /\ IdleWebhook

SpecTypo == InitTypo /\ [][NextMatch]_vars

(***************************************************************************)
(* The entity resolver, applied to every catalog, brand and model          *)
(***************************************************************************)
InitSearch ==
    /\ df \in Catalogs
    /\ brand \in BrandArgs
    /\ model \in ModelArgs
    /\ found = <<>> /\ max_price = 0
    /\ pc = "call"
    /\ IdleMatch /\ IdleFormat /\ IdleAgent /\ IdleText /\ IdleLoad /\ IdleStore /\ IdleWebhook

CallSearch ==
    /\ pc = "call"
    /\ found' = search_with_fuzzy_matching(df, brand, model)
    /\ pc' = "done"
    /\ UNCHANGED <<df, brand, model, max_price, matchVars, formatVars, agentVars, textVars, loadVars, storeVars, webhookVars>>

NextSearch == CallSearch
SpecSearch == InitSearch /\ [][NextSearch]_vars

(***************************************************************************)
(* The transport formatter, applied to texts around the maximum length     *)
(***************************************************************************)
InitFormat ==
    /\ text \in FormatterTexts
    /\ formatted = ""
    /\ pc = "call"
    /\ IdleMatch /\ IdleSearch /\ IdleAgent /\ IdleText /\ IdleLoad /\ IdleStore /\ IdleWebhook

CallFormat ==
    /\ pc = "call"
    /\ formatted' = _optimize_for_whatsapp(text)
    /\ pc' = "done"
    /\ UNCHANGED <<text, matchVars, searchVars, agentVars, textVars, loadVars, storeVars, webhookVars>>

NextFormat == CallFormat
SpecFormat == InitFormat /\ [][NextFormat]_vars

(***************************************************************************)
(* The text normalizer and the typo corrector, each applied once           *)
(***************************************************************************)
InitNormalize ==
    /\ raw \in NormalizeInputs
    /\ normalized = "" /\ token = "" /\ corrected = ""
    /\ pc = "call"
    /\ IdleMatch /\ IdleSearch /\ IdleFormat /\ IdleAgent /\ IdleLoad /\ IdleStore /\ IdleWebhook

CallNormalize ==
    /\ pc = "call"
    /\ normalized' = NormalizeArg(raw)
    /\ pc' = "done"
    /\ UNCHANGED <<raw, token, corrected, matchVars, searchVars, formatVars, agentVars, loadVars, storeVars, webhookVars>>

NextNormalize == CallNormalize
SpecNormalize == InitNormalize /\ [][NextNormalize]_vars

InitCorrect ==
    /\ token \in TypoTokens
    /\ raw = Str("") /\ normalized = "" /\ corrected = ""
    /\ pc = "call"
    /\ IdleMatch /\ IdleSearch /\ IdleFormat /\ IdleAgent /\ IdleLoad /\ IdleStore /\ IdleWebhook

CallCorrect ==
    /\ pc = "call"
    /\ corrected' = _correct_common_typos(token)
    /\ pc' = "done"
    /\ UNCHANGED <<raw, normalized, token, matchVars, searchVars, formatVars, agentVars, loadVars, storeVars, webhookVars>>

NextCorrect == CallCorrect
SpecCorrect == InitCorrect /\ [][NextCorrect]_vars

(***************************************************************************)
(* The car search tool: the catalog is loaded, then searched               *)
(***************************************************************************)
InitLoad ==
    /\ source \in SourceStates
    /\ csv_rows \in Catalogs
    /\ brand \in ToolBrands
    /\ model \in ToolModels
    /\ df = <<>> /\ found = <<>> /\ max_price = 0
    /\ loaded = NotLoaded
    /\ tool_result = NoToolResult
    /\ pc = "call"
    /\ IdleMatch /\ IdleFormat /\ IdleAgent /\ IdleText /\ IdleStore /\ IdleWebhook

\* line 141
LoadCarData ==
    /\ pc = "call"
    /\ loaded' = load_car_data(source, csv_rows)
    /\ df' = loaded'.df
    /\ pc' = "loaded"
    /\ UNCHANGED <<source, csv_rows, tool_result, brand, model, found, max_price,
                   matchVars, formatVars, agentVars, textVars, storeVars, webhookVars>>

\* lines 142-191; the rows are listed in the order of sort_values (line 167)
SearchSpecificCar ==
    /\ pc = "loaded"
    /\ \E answer \in {search_specific_car(loaded, brand, model)} :
          \E sorted_cars \in sort_values_price(answer.rows) :
              tool_result' = [kind |-> answer.kind, rows |-> sorted_cars]
    /\ found' = tool_result'.rows
    /\ pc' = "done"
    /\ UNCHANGED <<source, csv_rows, loaded, df, brand, model, max_price,
                   matchVars, formatVars, agentVars, textVars, storeVars, webhookVars>>

NextLoad == LoadCarData \/ SearchSpecificCar
SpecLoad == InitLoad /\ [][NextLoad]_vars

(***************************************************************************)
(* The budget search tool: filter, sort by price, list the first five      *)
(***************************************************************************)
InitBudget ==
    /\ df \in BudgetCatalogs
    /\ brand \in BudgetBrands
    /\ max_price \in BudgetPrices
    /\ model = "" /\ found = <<>>
    /\ source = "ok" /\ csv_rows = df /\ loaded = NotLoaded /\ tool_result = NoToolResult
    /\ pc = "call"
    /\ IdleMatch /\ IdleFormat /\ IdleAgent /\ IdleText /\ IdleStore /\ IdleWebhook

\* lines 62-126
SearchCarsByBudget ==
    /\ pc = "call"
    /\ loaded' = load_car_data(source, csv_rows)
    /\ IF loaded'.df = <<>>
       THEN tool_result' = [kind |-> "no_access", rows |-> <<>>]
       ELSE \E filtered_cars \in sort_values_price(BudgetFiltered(loaded'.df, max_price, brand)) :
               tool_result' = IF filtered_cars = <<>>
                              THEN [kind |-> "not_found", rows |-> <<>>]
                              ELSE [kind |-> "found", rows |-> HeadRows(filtered_cars, TOP_N)]
    /\ found' = tool_result'.rows
    /\ pc' = "done"
    /\ UNCHANGED <<source, csv_rows, df, brand, model, max_price,
                   matchVars, formatVars, agentVars, textVars, storeVars, webhookVars>>

NextBudget == SearchCarsByBudget
SpecBudget == InitBudget /\ [][NextBudget]_vars

(***************************************************************************)
(* The WhatsApp webhook (src/webhook/twilio_handler.py)                    *)
(***************************************************************************)
\* code points of the apology texts: inverted exclamation mark, the hammer and
\* wrench emoji and the variation selector that follows it
INVERTED_EXCLAMATION == "*"
EMOJI_TOOLS == ">"
VARIATION_SELECTOR == "'"

\* str.replace(old, new): every occurrence, left to right
RECURSIVE Replace(_, _, _)
Replace(s, old, new) ==
    LET starts == {i \in 1..(Len(s) - Len(old) + 1) : SubSeq(s, i, i + Len(old) - 1) = old}
    IN IF old = "" \/ starts = {} THEN s
       ELSE LET i == CHOOSE x \in starts : \A y \in starts : x <= y
            IN SubSeq(s, 1, i - 1) \o new \o Replace(SubSeq(s, i + Len(old), Len(s)), old, new)

\* lines 146-149
SessionOf(From) == "whatsapp_" \o Replace(From, "whatsapp:", "")

\* line 163: conversation_history[-10:]
WEBHOOK_WINDOW == 10
KeepLast(history, n) ==
    IF Len(history) > n THEN SubSeq(history, Len(history) - n + 1, Len(history)) ELSE history

\* lines 160-162
WebhookTurn(Body, agent_response, MessageSid) ==
    [user |-> Body, agent |-> agent_response, timestamp |-> MessageSid]

\* lines 168-180: the messages of the TwiML response
MAX_CHUNK_LENGTH == 3000
Chunks(agent_response) ==
    IF Len(agent_response) > MAX_CHUNK_LENGTH
    THEN [i \in 1..((Len(agent_response) + MAX_CHUNK_LENGTH - 1) \div MAX_CHUNK_LENGTH) |->
             SubSeq(agent_response, (i - 1) * MAX_CHUNK_LENGTH + 1,
                    Min(i * MAX_CHUNK_LENGTH, Len(agent_response)))]
    ELSE <<agent_response>>

HTTP_200_OK == 200
Response(status_code, messages) == [status_code |-> status_code, twiml |-> messages]

\* lines 196-198 and 213-216
HTTP_ERROR_MESSAGE ==
    "*Ups! No pude procesar tu solicitud. Por favor, int}ntalo de nuevo m{s tarde. >'"
ERROR_MESSAGE ==
    "*Ups! Algo sali] mal en nuestro sistema. "
        \o "Nuestro equipo ha sido notificado. Por favor, int}ntalo de nuevo en un momento. >'"

\* what is raised inside the try block
PlainException == [type |-> "Exception"]
HTTPException(status_code) == [type |-> "HTTPException", status_code |-> status_code]

\* mutant: every error is answered with status 200
AlwaysOkResponse(error) == Response(HTTP_200_OK, <<ERROR_MESSAGE>>)

\* the except clauses, lines 193-230
ErrorResponse(error) ==
    IF error.type = "HTTPException"
    THEN Response(error.status_code, <<HTTP_ERROR_MESSAGE>>)
    ELSE Response(HTTP_200_OK, <<ERROR_MESSAGE>>)

\* senders, message bodies, answers of process_with_kavak_agent, and what a
\* replaced process_with_kavak_agent raises
Froms == {"whatsapp:+5215512345678", "whatsapp:+5215587654321", "+5215512345678"}
Bodies == {"Hola"}
AgentResponses == {"*Hola! Soy tu agente comercial de Kavak #"}
HTTP_404_NOT_FOUND == 404
HTTP_500_INTERNAL_SERVER_ERROR == 500
ProcessingErrors == {PlainException, HTTPException(HTTP_500_INTERNAL_SERVER_ERROR),
                     HTTPException(HTTP_404_NOT_FOUND)}
WebhookSessions == {SessionOf(f) : f \in Froms}
\* the requests of one run
MaxRequests == 2
MessageSidOf(r) == "SM" \o ToString(r)
\* histories left by earlier requests
PastTurn(n) == WebhookTurn("pregunta " \o ToString(n), "respuesta " \o ToString(n),
                           "SM0" \o ToString(n))
PastHistories == {<<PastTurn(1)>>, [n \in 1..WEBHOOK_WINDOW |-> PastTurn(n)]}

(***************************************************************************)
(* The history store: construction, then operations, while the server      *)
(* comes and goes and keys expire                                          *)
(***************************************************************************)
RedisKeys == {get_conversation_key(s) : s \in StoreSessions}
                \cup {activity_key(s) : s \in StoreSessions}
notStore == <<matchVars, searchVars, formatVars, agentVars, textVars, loadVars, webhookVars>>

InitStore ==
    /\ server_up \in BOOLEAN
    /\ is_connected = FALSE
    /\ ttl_seconds \in TtlValues
    /\ redis_data = [k \in RedisKeys |-> Absent]
    /\ last_op = NoOp
    /\ saved = [s \in StoreSessions |-> NotSaved]
    /\ op_count = 0
    /\ pc = "new"
    /\ IdleMatch /\ IdleSearch /\ IdleFormat /\ IdleAgent /\ IdleText /\ IdleLoad /\ IdleWebhook

\* what every operation records about itself
OpRecord(op, session, result, error) ==
    [op |-> op, session |-> session, result |-> result, error |-> error,
     keys |-> IF op = "list" THEN RedisKeys
              ELSE {get_conversation_key(session), activity_key(session)},
     raised |-> error # "none" /\ LeavesOperation(error),
     at |-> op_count,
     was_connected |-> is_connected, reconnect |-> NeedsConnect(is_connected),
     connected |-> ConnectedAfterGuard(is_connected, server_up),
     up |-> server_up, held |-> saved]

\* __init__ (lines 30-33)
Construct ==
    /\ pc = "new"
    /\ is_connected' = Connect(server_up)
    /\ last_op' = [op |-> "init", session |-> "", result |-> Connect(server_up),
                   error |-> IF server_up THEN "none" ELSE "RedisError", keys |-> {},
                   raised |-> ~server_up /\ LeavesOperation("RedisError"),
                   at |-> op_count, was_connected |-> FALSE, reconnect |-> TRUE,
                   connected |-> Connect(server_up),
                   up |-> server_up, held |-> saved]
    /\ pc' = "ready"
    /\ UNCHANGED <<server_up, ttl_seconds, redis_data, saved, op_count, notStore>>

CanOperate == pc = "ready" /\ op_count < MaxOps

\* the server becomes unreachable, or reachable again
ServerChanges ==
    /\ CanOperate
    /\ server_up' = ~server_up
    /\ op_count' = op_count + 1
    /\ UNCHANGED <<is_connected, ttl_seconds, redis_data, last_op, saved, pc, notStore>>

\* the time-to-live of a key elapses
Expire ==
    /\ CanOperate
    /\ \E k \in RedisKeys :
          /\ redis_data[k] # Absent
          /\ redis_data' = [redis_data EXCEPT ![k] = Absent]
          /\ saved' = [s \in StoreSessions |->
                          IF get_conversation_key(s) = k THEN NotSaved ELSE saved[s]]
    /\ op_count' = op_count + 1
    /\ UNCHANGED <<server_up, is_connected, ttl_seconds, last_op, pc, notStore>>

\* save_conversation (lines 81-124)
SaveConversation ==
    /\ CanOperate
    /\ \E s \in StoreSessions, h \in StoreHistories :
          LET connected == ConnectedAfterGuard(is_connected, server_up)
              error == IF DumpsRaises(LimitTurns(h)) THEN "TypeError"
                       ELSE IF ~server_up \/ SetexRaises(ttl_seconds) THEN "RedisError"
                       ELSE "none"
          IN /\ is_connected' = connected
             /\ IF connected /\ error = "none"
                THEN /\ redis_data' = [redis_data EXCEPT
                                          ![get_conversation_key(s)] = dumps(LimitTurns(h)),
                                          ![activity_key(s)] = [ts |-> op_count]]
                     /\ saved' = [t \in StoreSessions |->
                                     IF get_conversation_key(t) = get_conversation_key(s)
                                     THEN Saved(h) ELSE saved[t]]
                     /\ last_op' = OpRecord("save", s, TRUE, "none")
                ELSE /\ UNCHANGED <<redis_data, saved>>
                     /\ last_op' = OpRecord("save", s, FALSE, IF connected THEN error ELSE "none")
    /\ op_count' = op_count + 1
    /\ UNCHANGED <<server_up, ttl_seconds, pc, notStore>>

\* get_conversation (lines 126-168)
GetConversation ==
    /\ CanOperate
    /\ \E s \in StoreSessions :
          LET connected == ConnectedAfterGuard(is_connected, server_up)
              serialized_data == redis_data[get_conversation_key(s)]
          IN /\ is_connected' = connected
             /\ IF connected /\ server_up /\ serialized_data # Absent
                THEN /\ redis_data' = IF SetexRaises(ttl_seconds) THEN redis_data
                                      ELSE [redis_data EXCEPT ![activity_key(s)] = [ts |-> op_count]]
                     /\ last_op' = OpRecord("get", s, loads(serialized_data), "none")
                ELSE /\ UNCHANGED redis_data
                     /\ last_op' = OpRecord("get", s, <<>>,
                                            IF connected /\ ~server_up THEN "RedisError" ELSE "none")
    /\ op_count' = op_count + 1
    /\ UNCHANGED <<server_up, ttl_seconds, saved, pc, notStore>>

\* delete_conversation (lines 170-198)
DeleteConversation ==
    /\ CanOperate
    /\ \E s \in StoreSessions :
          LET connected == ConnectedAfterGuard(is_connected, server_up)
          IN /\ is_connected' = connected
             /\ IF connected /\ server_up
                THEN /\ redis_data' = [redis_data EXCEPT ![get_conversation_key(s)] = Absent,
                                                         ![activity_key(s)] = Absent]
                     /\ saved' = [t \in StoreSessions |->
                                     IF get_conversation_key(t) = get_conversation_key(s)
                                     THEN NotSaved ELSE saved[t]]
                     /\ last_op' = OpRecord("delete", s, TRUE, "none")
                ELSE /\ UNCHANGED <<redis_data, saved>>
                     /\ last_op' = OpRecord("delete", s, FALSE,
                                            IF connected THEN "RedisError" ELSE "none")
    /\ op_count' = op_count + 1
    /\ UNCHANGED <<server_up, ttl_seconds, pc, notStore>>

\* list_active_sessions (lines 218-266); it reads every session through
\* get_conversation, which refreshes the session's activity key
ListActiveSessions ==
    /\ CanOperate
    /\ LET connected == ConnectedAfterGuard(is_connected, server_up)
           active == {s \in StoreSessions : redis_data[get_conversation_key(s)] # Absent}
           history(s) == loads(redis_data[get_conversation_key(s)])
           \* conversation_data[-1]["user"] raises KeyError when the key is absent
           error == IF ~server_up THEN "RedisError"
                    ELSE IF \E s \in active :
                              history(s) # <<>> /\ history(s)[Len(history(s))].user = Missing
                         THEN "KeyError" ELSE "none"
           refreshed == [k \in RedisKeys |->
                            IF ~SetexRaises(ttl_seconds)
                               /\ \E s \in active : k = activity_key(s)
                            THEN [ts |-> op_count] ELSE redis_data[k]]
       IN /\ is_connected' = connected
          /\ IF connected /\ error = "none"
             THEN /\ redis_data' = refreshed
                  /\ last_op' = OpRecord("list", "",
                        [s \in active |->
                            [message_count |-> Len(history(s)),
                             ttl_seconds |-> ttl_seconds,
                             last_activity |-> IF refreshed[activity_key(s)] = Absent THEN 0
                                               ELSE refreshed[activity_key(s)].ts,
                             last_message |-> IF history(s) # <<>>
                                              THEN history(s)[Len(history(s))].user
                                              ELSE Str("")]],
                        "none")
             ELSE /\ redis_data' = IF connected /\ server_up THEN refreshed ELSE redis_data
                  /\ last_op' = OpRecord("list", "", <<>>, IF connected THEN error ELSE "none")
    /\ op_count' = op_count + 1
    /\ UNCHANGED <<server_up, ttl_seconds, saved, pc, notStore>>

NextStore ==
    \/ Construct
    \/ ServerChanges
    \/ Expire
    \/ SaveConversation
    \/ GetConversation
    \/ DeleteConversation
    \/ ListActiveSessions

SpecStore == InitStore /\ [][NextStore]_vars

(***************************************************************************)
(* The webhook: requests are served by coroutines of one event loop, which *)
(* switch only at the await of process_with_kavak_agent                    *)
(***************************************************************************)
notWebhook == <<matchVars, searchVars, formatVars, agentVars, textVars, loadVars, storeVars>>
NoKey == 0
\* conversation_memory.get(session_id): the stored list, or none
StoredHistory(memory, objects, session_id) ==
    IF memory[session_id] = NoKey THEN NotSaved ELSE Saved(objects[memory[session_id]])

InitWebhook ==
    /\ \E stored \in [WebhookSessions -> {NotSaved} \cup {Saved(h) : h \in PastHistories}] :
          LET present == {s \in WebhookSessions : stored[s] # NotSaved}
              order == CHOOSE f \in [1..Cardinality(present) -> present] :
                          \A i, j \in DOMAIN f : f[i] = f[j] => i = j
          IN /\ lists = [i \in 1..Cardinality(present) |-> stored[order[i]].turns]
             /\ conversation_memory =
                   [s \in WebhookSessions |->
                       IF s \in present THEN CHOOSE i \in DOMAIN order : order[i] = s
                       ELSE NoKey]
    /\ requests = [r \in 1..MaxRequests |-> [stage |-> "idle"]]
    /\ last_request = NoRequest
    /\ pc = "serving"
    /\ IdleMatch /\ IdleSearch /\ IdleFormat /\ IdleAgent /\ IdleText /\ IdleLoad /\ IdleStore

Steps == Cardinality({r \in DOMAIN requests : requests[r].stage # "idle"})
           + Cardinality({r \in DOMAIN requests : requests[r].stage = "answered"})
\* what a step records: the request, its session, and the session keys of
\* conversation_memory it read or wrote
StepRecord(op, r, session_id, keys) ==
    [op |-> op, r |-> r, session_id |-> session_id, keys |-> keys, at |-> Steps]

NextIdle(r) ==
    /\ pc = "serving"
    /\ r \in DOMAIN requests
    /\ requests[r].stage = "idle"
    /\ \A q \in DOMAIN requests : q < r => requests[q].stage # "idle"

\* lines 139-153: up to the await
Receive(r) ==
    /\ NextIdle(r)
    /\ \E From \in Froms, Body \in Bodies :
          LET session_id == SessionOf(From)
              absent == conversation_memory[session_id] = NoKey
          IN /\ lists' = IF absent THEN Append(lists, <<>>) ELSE lists
             /\ requests' = [requests EXCEPT ![r] =
                   [stage |-> "processing", From |-> From, Body |-> Body,
                    MessageSid |-> MessageSidOf(r), session_id |-> session_id,
                    conversation_history |-> IF absent THEN Len(lists) + 1
                                             ELSE conversation_memory[session_id]]]
             /\ last_request' = StepRecord("receive", r, session_id, {session_id})
    /\ UNCHANGED <<conversation_memory, pc, notWebhook>>

\* lines 153-190: process_with_kavak_agent returns
Complete(r) ==
    /\ pc = "serving"
    /\ r \in DOMAIN requests
    /\ requests[r].stage = "processing"
    /\ \E agent_response \in AgentResponses :
          LET req == requests[r]
              appended == Append(lists[req.conversation_history],
                                 WebhookTurn(req.Body, agent_response, req.MessageSid))
          IN /\ lists' = Append([lists EXCEPT ![req.conversation_history] = appended],
                                KeepLast(appended, WEBHOOK_WINDOW))
             /\ conversation_memory' =
                   [conversation_memory EXCEPT ![req.session_id] = Len(lists) + 1]
             /\ requests' = [requests EXCEPT ![r] =
                   [req EXCEPT !.stage = "answered"] @@
                   [outcome |-> "returned",
                    response |-> Response(HTTP_200_OK, Chunks(agent_response)),
                    stored_before |-> StoredHistory(conversation_memory, lists, req.session_id)]]
             /\ last_request' = StepRecord("complete", r, req.session_id, {req.session_id})
    /\ UNCHANGED <<pc, notWebhook>>

\* lines 153 and 193-230: the awaited call raises
Fail(r) ==
    /\ pc = "serving"
    /\ r \in DOMAIN requests
    /\ requests[r].stage = "processing"
    /\ \E error \in ProcessingErrors :
          LET req == requests[r]
          IN /\ requests' = [requests EXCEPT ![r] =
                   [req EXCEPT !.stage = "answered"] @@
                   [outcome |-> "raised", error |-> error,
                    response |-> ErrorResponse(error),
                    stored_before |-> StoredHistory(conversation_memory, lists, req.session_id)]]
             /\ last_request' = StepRecord("fail", r, req.session_id, {})
    /\ UNCHANGED <<conversation_memory, lists, pc, notWebhook>>

\* clear_conversation, lines 470-483
ClearConversation(r) ==
    /\ NextIdle(r)
    /\ \E session_id \in WebhookSessions :
          LET present == conversation_memory[session_id] # NoKey
          IN /\ conversation_memory' =
                   IF present THEN [conversation_memory EXCEPT ![session_id] = NoKey]
                   ELSE conversation_memory
             /\ requests' = [requests EXCEPT ![r] =
                   [stage |-> "answered", session_id |-> session_id, MessageSid |-> "",
                    outcome |-> IF present THEN "cleared" ELSE "not_found",
                    response |-> IF present THEN Response(HTTP_200_OK, <<>>)
                                 ELSE Response(HTTP_404_NOT_FOUND, <<>>),
                    stored_before |-> StoredHistory(conversation_memory, lists, session_id)]]
             /\ last_request' = StepRecord("clear", r, session_id, {session_id})
    /\ UNCHANGED <<lists, pc, notWebhook>>

NextWebhook ==
    \E r \in 1..MaxRequests :
        \/ Receive(r)
        \/ Complete(r)
        \/ Fail(r)
        \/ ClearConversation(r)

SpecWebhook == InitWebhook /\ [][NextWebhook]_vars

\* the history is kept by one of the two stores: the webhook's
\* conversation_memory or a RedisConversationMemory
InitSessions == InitStore \/ InitWebhook
NextSessions == NextStore \/ NextWebhook
SpecSessions == InitSessions /\ [][NextSessions]_vars

(***************************************************************************)
(* _get_fallback_response, applied to every message                        *)
(***************************************************************************)
InitFallback ==
    /\ message \in FallbackMessages
    /\ conversation_history = <<>>
    /\ AgentLocalsUnset
    /\ pc = "call"
    /\ IdleMatch /\ IdleSearch /\ IdleFormat /\ IdleText /\ IdleLoad /\ IdleStore /\ IdleWebhook

CallFallback ==
    /\ pc = "call"
    /\ returned' = _get_fallback_response(message)
    /\ pc' = "done"
    /\ UNCHANGED <<message, conversation_history, chat_history_for_agent,
                   agent_executor_response, agent_final_output, rag_tool_returned_empty,
                   raised_at, executor_calls, llm_calls, tool_trace,
                   matchVars, searchVars, formatVars, textVars, loadVars, storeVars, webhookVars>>

NextFallback == CallFallback
SpecFallback == InitFallback /\ [][NextFallback]_vars

(***************************************************************************)
(* process_message, statement by statement                                 *)
(***************************************************************************)
otherVars == <<matchVars, searchVars, formatVars, textVars, loadVars, storeVars, webhookVars>>

InitAgent ==
    /\ message \in Messages
    /\ conversation_history \in Histories
    /\ AgentLocalsUnset
    /\ pc = "build"
    /\ IdleMatch /\ IdleSearch /\ IdleFormat /\ IdleText /\ IdleLoad /\ IdleStore /\ IdleWebhook

\* an exception raised at a step goes to the handler if the step is inside try
Raise(step) ==
    /\ raised_at' = step
    /\ pc' = IF Caught(step) THEN "except" ELSE "propagated"

\* line 112
BuildHistory ==
    /\ pc = "build"
    /\ IF BuildHistoryRaises(conversation_history)
       THEN Raise("build") /\ UNCHANGED chat_history_for_agent
       ELSE /\ chat_history_for_agent' = _build_chat_history(conversation_history)
            /\ pc' = "invoke"
            /\ UNCHANGED raised_at
    /\ UNCHANGED <<message, conversation_history, agent_executor_response, agent_final_output,
                   rag_tool_returned_empty, returned, executor_calls, llm_calls, tool_trace, otherVars>>

\* lines 117-119: inside the awaited executor call, the model asks for a tool
\* and the tool answers; the executor allows max_iterations such rounds
ToolRound ==
    /\ pc = "invoke"
    /\ MoreRoundsAllowed(tool_trace)
    /\ \E step \in ToolSteps : tool_trace' = RoundsAfter(tool_trace, step)
    /\ UNCHANGED <<message, conversation_history, chat_history_for_agent,
                   agent_executor_response, agent_final_output, rag_tool_returned_empty,
                   returned, raised_at, executor_calls, llm_calls, pc, otherVars>>

\* lines 117-122: the tool-augmented model call returns; the model has given
\* its final text, or the rounds are used up and early_stopping_method
\* "generate" has it generate one
InvokeAgent ==
    /\ pc = "invoke"
    /\ \E output \in AgentOutputs, reports \in ExecutorReports :
          /\ agent_executor_response' =
                [output |-> output, intermediate_steps |-> ReportedSteps(reports, tool_trace)]
          /\ agent_final_output' = output
    /\ UNCHANGED tool_trace
    /\ executor_calls' = executor_calls + 1
    /\ pc' = "inspect"
    /\ UNCHANGED <<message, conversation_history, chat_history_for_agent,
                   rag_tool_returned_empty, returned, raised_at, llm_calls, otherVars>>

\* lines 117-119: the tool-augmented model call raises
InvokeAgentRaises ==
    /\ pc = "invoke"
    /\ executor_calls' = executor_calls + 1
    /\ Raise("invoke")
    /\ UNCHANGED <<message, conversation_history, chat_history_for_agent,
                   agent_executor_response, agent_final_output, rag_tool_returned_empty,
                   returned, llm_calls, tool_trace, otherVars>>

\* lines 126-144: the trace is inspected and the fallback condition evaluated
InspectTrace ==
    /\ pc = "inspect"
    /\ LET rag == RagToolReturnedEmpty(agent_executor_response.intermediate_steps)
       IN /\ rag_tool_returned_empty' = rag
          /\ IF rag /\ EmptyCheck(agent_final_output) = "raise" THEN Raise("inspect")
             ELSE /\ pc' = IF rag /\ EmptyCheck(agent_final_output) = "true"
                           THEN "direct" ELSE "validate"
                  /\ UNCHANGED raised_at
    /\ UNCHANGED <<message, conversation_history, chat_history_for_agent,
                   agent_executor_response, agent_final_output, returned,
                   executor_calls, llm_calls, tool_trace, otherVars>>

\* lines 162-168: the direct model call returns
DirectLLM ==
    /\ pc = "direct"
    /\ llm_calls' = llm_calls + 1
    /\ \E result \in DirectResults :
          /\ agent_final_output' = IF result = PyNone THEN Str("") ELSE result
          /\ IF Sliceable(agent_final_output')
             THEN pc' = "validate" /\ UNCHANGED raised_at
             ELSE Raise("direct")
    /\ UNCHANGED <<message, conversation_history, chat_history_for_agent,
                   agent_executor_response, rag_tool_returned_empty, returned,
                   executor_calls, tool_trace, otherVars>>

\* line 162: the direct model call raises
DirectLLMRaises ==
    /\ pc = "direct"
    /\ llm_calls' = llm_calls + 1
    /\ Raise("direct")
    /\ UNCHANGED <<message, conversation_history, chat_history_for_agent,
                   agent_executor_response, agent_final_output, rag_tool_returned_empty,
                   returned, executor_calls, tool_trace, otherVars>>

\* lines 171-173
Validate ==
    /\ pc = "validate"
    /\ LET check == EmptyCheck(agent_final_output)
       IN IF check = "raise" THEN Raise("validate") /\ UNCHANGED returned
          ELSE IF check = "true"
               THEN /\ returned' = EmptyResponseReturn(agent_final_output)
                    /\ pc' = "done"
                    /\ UNCHANGED raised_at
               ELSE pc' = "format" /\ UNCHANGED <<returned, raised_at>>
    /\ UNCHANGED <<message, conversation_history, chat_history_for_agent,
                   agent_executor_response, agent_final_output, rag_tool_returned_empty,
                   executor_calls, llm_calls, tool_trace, otherVars>>

\* lines 177-184
Format ==
    /\ pc = "format"
    /\ returned' = _optimize_for_whatsapp(agent_final_output.s)
    /\ pc' = "done"
    /\ UNCHANGED <<message, conversation_history, chat_history_for_agent,
                   agent_executor_response, agent_final_output, rag_tool_returned_empty,
                   raised_at, executor_calls, llm_calls, tool_trace, otherVars>>

\* lines 186-197
HandleException ==
    /\ pc = "except"
    /\ returned' = _get_fallback_response(message)
    /\ pc' = "done"
    /\ UNCHANGED <<message, conversation_history, chat_history_for_agent,
                   agent_executor_response, agent_final_output, rag_tool_returned_empty,
                   raised_at, executor_calls, llm_calls, tool_trace, otherVars>>

NextAgent ==
    \/ BuildHistory
    \/ ToolRound
    \/ InvokeAgent
    \/ InvokeAgentRaises
    \/ InspectTrace
    \/ DirectLLM
    \/ DirectLLMRaises
    \/ Validate
    \/ Format
    \/ HandleException

SpecAgent == InitAgent /\ [][NextAgent]_vars

\* a session's history is stored by the webhook or by the Redis store, and is
\* handed to process_message, which builds the model's context from it
InitHistory == InitSessions \/ InitAgent
NextHistory == NextSessions \/ NextAgent
SpecHistory == InitHistory /\ [][NextHistory]_vars

\* _optimize_for_whatsapp and _get_fallback_response are pure and return
FormatReturns == pc = "format" /\ pc' = "done"
HandlerReturns == pc = "except" /\ pc' = "done"
\* every collaborator call returns or raises, and the event loop resumes the
\* coroutine: a step that can be taken is taken
SpecAgentLive ==
    /\ SpecAgent
    /\ WF_vars(BuildHistory \/ ToolRound \/ InvokeAgent \/ InvokeAgentRaises \/ InspectTrace
                  \/ DirectLLM \/ DirectLLMRaises \/ Validate)
    /\ WF_pc(FormatReturns)
    /\ WF_pc(HandlerReturns)

(***************************************************************************)
(* Claims about the fuzzy matcher (SpecMatch).                             *)
(***************************************************************************)
Returned == pc = "done"
ChoiceIndex == 1..Len(choices)
\* the similarity of the normalized query to each normalized candidate
SimilarityTo == [i \in ChoiceIndex |->
                    token_sort_ratio(_normalize_text(query), _normalize_text(choices[i]))]
ExactChoices == {i \in ChoiceIndex : _normalize_text(choices[i]) = _normalize_text(query)}

\* C8: for a non-empty query and candidate list, _get_best_match returns none
\* or a pair (candidate, score) with the candidate one of the given candidates
\* in its original spelling and threshold <= score <= 100; a candidate whose
\* normalized form equals the normalized query is returned with score 100;
\* otherwise the returned candidate has the maximum similarity, and none is
\* returned exactly when that maximum is below the threshold.
C8_BestMatchContract ==
    (Returned /\ query # "" /\ choices # <<>>) =>
        /\ best # NoMatch =>
              /\ \E i \in ChoiceIndex : choices[i] = best[1]
              /\ ScoreGE(best[2], threshold)
              /\ ScoreLE(best[2], 100)
        /\ ExactChoices # {} =>
              /\ best # NoMatch
              /\ \E i \in ExactChoices : choices[i] = best[1]
              /\ best[2] = Score100
        /\ ExactChoices = {} =>
              /\ best = NoMatch <=> \A i \in ChoiceIndex : ~ScoreGE(SimilarityTo[i], threshold)
              /\ best # NoMatch =>
                    \E i \in ChoiceIndex :
                        /\ choices[i] = best[1]
                        /\ SimilarityTo[i] = best[2]
                        /\ \A j \in ChoiceIndex : ~ScoreLess(SimilarityTo[i], SimilarityTo[j])

\* a fuzzy (not exact) match above the default threshold was returned, and
\* another candidate scored lower
C8_Witness ==
    /\ Returned /\ threshold = DEFAULT_THRESHOLD /\ ExactChoices = {}
    /\ best # NoMatch /\ best[2] # Score100
    /\ \E j \in ChoiceIndex : ScoreLess(SimilarityTo[j], best[2])

\* C9: _get_best_match with an empty query or with an empty candidate list
\* returns none.
C9_EmptyInputsGiveNone ==
    (Returned /\ (query = "" \/ choices = <<>>)) => best = NoMatch

\* an empty query met a candidate it would have matched: one whose normalized
\* form is empty too
C9_Witness ==
    /\ Returned /\ query = "" /\ best = NoMatch
    /\ \E i \in ChoiceIndex : _normalize_text(choices[i]) = ""

(***************************************************************************)
(* Claims about mistyped brands (SpecTypo).                                *)
(***************************************************************************)
\* C10 as stated: every query within edit distance 2 of a catalog brand gets
\* that brand back with a score of at least 75.
C10_TwoEditsMatch ==
    (Returned /\ target # 0) =>
        /\ best # NoMatch
        /\ best[1] = choices[target]
        /\ ScoreGE(best[2], 75)

\* C10 amended: when the brand's normalized form is one token of at least 8
\* characters and the normalized query is one token, the brand scores at least
\* 75 against the query and a brand is returned with a score of at least 75:
\* that brand, unless another catalog brand scores at least as high.
C10_TwoEditsMatchLongBrand ==
    (Returned /\ target # 0
       /\ Len(Split(_normalize_text(choices[target]))) = 1
       /\ Len(_normalize_text(choices[target])) >= 8
       /\ Len(Split(_normalize_text(query))) = 1) =>
        /\ ScoreGE(SimilarityTo[target], 75)
        /\ best # NoMatch
        /\ ScoreGE(best[2], 75)
        /\ \/ best[1] = choices[target]
           \/ \E j \in ChoiceIndex \ {target} : ~ScoreLess(SimilarityTo[j], SimilarityTo[target])

\* two characters of a brand of 8 characters or more were replaced, and the
\* brand came back with a score below 100
C10_Witness ==
    /\ Returned /\ target # 0 /\ Len(choices[target]) >= 8
    /\ Len(query) = Len(choices[target])
    /\ Cardinality({i \in 1..Len(query) : CharAt(query, i) = "x"}) = 2
    /\ best # NoMatch /\ best[1] = choices[target] /\ best[2] # Score100

(***************************************************************************)
(* Claims about the entity resolver (SpecSearch).                          *)
(***************************************************************************)
FoundIndex == 1..Len(found)
RowsOf(rows) == {rows[i] : i \in 1..Len(rows)}

\* C3: once a brand match succeeds, the model candidates are the models of
\* the matched brand's rows only: every returned row is a catalog row of the
\* matched brand, and when no model of that brand matches the model argument
\* the result is empty, whatever other brands offer; brand "Toyota" with
\* model "Versa" (a Nissan) gives the empty subset.
C3_ModelWithinMatchedBrand ==
    (Returned /\ df # <<>> /\ Cleaned(brand) # "" /\ BrandMatch(df, brand) # NoMatch) =>
        LET matched_brand == BrandMatch(df, brand)[1]
            brand_models == Unique(RowsWhere(df, "make", matched_brand), "model")
        IN /\ \A i \in FoundIndex : found[i] \in RowsOf(df) /\ found[i].make = matched_brand
           /\ (Cleaned(model) # ""
                 /\ _get_best_match(Cleaned(model), brand_models, DEFAULT_THRESHOLD) = NoMatch)
              => found = <<>>
           /\ (brand = "Toyota" /\ model = "Versa") => found = <<>>

\* Toyota was matched, Versa is in the catalog as a Nissan only, nothing returned
C3_Witness ==
    /\ Returned /\ brand = "Toyota" /\ model = "Versa" /\ found = <<>>
    /\ \E i \in 1..Len(df) : df[i].make = "Toyota"
    /\ \E i \in 1..Len(df) : df[i].make = "Nissan" /\ df[i].model = "Versa"

\* C4: a given brand that no catalog brand matches gives the empty subset, and
\* a given model that no model of the brand-filtered subset matches gives the
\* empty subset.
C4_UnmatchedGivesEmpty ==
    (Returned /\ df # <<>>) =>
        /\ (brand # "" /\ BrandMatch(df, brand) = NoMatch) => found = <<>>
        /\ (brand = "" /\ model # "" /\ ModelMatch(df, model) = NoMatch) => found = <<>>
        /\ (brand # "" /\ BrandMatch(df, brand) # NoMatch /\ model # ""
              /\ ModelMatch(RowsWhere(df, "make", BrandMatch(df, brand)[1]), model) = NoMatch)
           => found = <<>>

\* C5: searching a catalog for an entry's exact make and model returns a
\* subset that contains the entry.
C5_Recall ==
    Returned =>
        \A i \in 1..Len(df) :
            (brand = df[i].make /\ model = df[i].model) => df[i] \in RowsOf(found)

(***************************************************************************)
(* Claims about the transport formatter (SpecFormat).                      *)
(***************************************************************************)
\* C6: the text returned by _optimize_for_whatsapp, emoji injection included,
\* is at most RESPONSE_MAX_LENGTH long.
C6_FormattedWithinMaxLength ==
    Returned => Len(formatted) <= RESPONSE_MAX_LENGTH

\* C7: a text longer than RESPONSE_MAX_LENGTH is returned at most
\* RESPONSE_MAX_LENGTH long and non-empty.
C7_LongTextTruncated ==
    (Returned /\ Len(text) > RESPONSE_MAX_LENGTH) =>
        /\ Len(formatted) <= RESPONSE_MAX_LENGTH
        /\ formatted # ""

\* a text one character too long, without an emoji of its own, came back as the
\* prefix, the continuation prompt, and an injected emoji with its space
C7_Witness ==
    /\ Returned /\ Len(text) = RESPONSE_MAX_LENGTH + 1 /\ ~ContainsAny(text, EmojiSet)
    /\ Len(formatted) =
          RESPONSE_MAX_LENGTH - RESERVED_SUFFIX_LENGTH + Len(ContinuationPrompt) + 2

(***************************************************************************)
(* Claims about process_message (SpecAgent).                               *)
(***************************************************************************)
\* C1: whatever the tool-augmented model call, the tool trace and the direct
\* model call give, process_message returns a string that is neither empty
\* nor whitespace-only.
C1_NeverEmptyReturn ==
    /\ pc # "propagated"
    /\ Returned => Strip(returned) # ""

\* the knowledge lookup was empty, the final output was empty, the direct call
\* gave an empty text too, and the call returned
C1_Witness ==
    /\ Returned
    /\ rag_tool_returned_empty
    /\ llm_calls = 1
    /\ EmptyCheck(agent_executor_response.output) = "true"
    /\ agent_final_output = Str("")
    /\ raised_at = "none"
    /\ returned # ""

\* C2: an exception raised at any step of process_message does not reach the
\* caller; the call returns the canned template chosen from the message.
C2_ExceptionsGiveFallback ==
    /\ pc # "propagated"
    /\ (Returned /\ raised_at # "none") => returned = _get_fallback_response(message)

\* the direct model call raised and the call still returned a template
C2_Witness ==
    /\ Returned
    /\ raised_at = "direct"
    /\ \E i \in 1..Len(fallback_responses) : returned = fallback_responses[i]

(***************************************************************************)
(* Claims about the normalizer and the typo corrector.                     *)
(***************************************************************************)
\* C11: _normalize_text returns the canonical form: only lower-case letters
\* without diacritics, digits and internal spaces, no leading or trailing
\* whitespace; None, a non-string and "" give "".
C11_CanonicalForm ==
    Returned =>
        /\ (raw.type # "str" \/ raw = Str("")) => normalized = ""
        /\ \A i \in 1..Len(normalized) :
              CharAt(normalized, i) \in CharSet(LowerAZ) \cup CharSet(Digits) \cup {" "}
        /\ Strip(normalized) = normalized

\* C12: every misspelling the tests list is rewritten to its canonical form,
\* and a correctly spelt token is returned unchanged.
C12_TestedTyposCorrected ==
    Returned =>
        /\ token = "nisan" => corrected = "nissan"
        /\ token = "toyoya" => corrected = "toyota"
        /\ token = "vw" => corrected = "volkswagen"
        /\ token = "chevy" => corrected = "chevrolet"
        /\ token = "civic lx" => corrected = "civic"
        /\ token = "sentra 2020" => corrected = "sentra"
        /\ token = "jeta" => corrected = "jetta"
        /\ token = "toyota" => corrected = "toyota"
        /\ token = "yaris" => corrected = "yaris"

(***************************************************************************)
(* Claims about the catalog load (SpecLoad).                               *)
(***************************************************************************)
\* C13: a missing, unreadable or corrupt catalog source is an error surfaced to
\* the caller of the load, not an empty catalog, and it differs from the
\* answer given when a loaded catalog has no matching car.
C13_LoadFailureSurfaced ==
    (pc \in {"loaded", "done"} /\ source # "ok") =>
        /\ loaded.error
        /\ loaded # load_car_data("ok", <<>>)

Spec == SpecAgent
(***************************************************************************)
(* The history store                                                       *)
(***************************************************************************)
\* what an operation returns when it could not do its work
StoreDefault(op) == IF op \in {"get", "list"} THEN <<>> ELSE FALSE
\* the last min(len(h), MAX_CONVERSATION_TURNS) turns of h, in order
MostRecent(h) ==
    LET n == Min(Len(h), MAX_CONVERSATION_TURNS)
    IN [i \in 1..n |-> h[Len(h) - n + i]]

\* C15: no operation of the history store raises; construction with an
\* unreachable server leaves is_connected false; an operation that finds the
\* store unconnected attempts a reconnect first, and an operation that cannot
\* connect or whose Redis call fails returns its default ([] for
\* get_conversation, False for save_conversation and delete_conversation, {}
\* for list_active_sessions)
C15_StoreFailuresAbsorbed ==
    last_op # NoOp =>
        /\ ~last_op.raised
        /\ last_op.reconnect = ~last_op.was_connected
        /\ (last_op.op = "init" /\ ~last_op.up) => (~is_connected /\ last_op.result = FALSE)
        /\ (last_op.op # "init" /\ ~last_op.was_connected /\ last_op.up) => is_connected
        /\ (last_op.op # "init" /\ (~last_op.connected \/ last_op.error # "none"))
              => last_op.result = StoreDefault(last_op.op)

\* a get_conversation on a connected store whose server has become unreachable,
\* for a session that has a stored history
C15_Witness ==
    /\ last_op # NoOp /\ last_op.op = "get"
    /\ last_op.was_connected /\ last_op.error = "RedisError"
    /\ redis_data[get_conversation_key(last_op.session)] # Absent
    /\ last_op.result = <<>>

\* C16 as stated: get_conversation(s) returns the last
\* min(len(h), MAX_CONVERSATION_TURNS) turns of the history h last saved with
\* success for s and neither expired nor deleted, and [] when there is none
C16_RoundTrip ==
    (last_op # NoOp /\ last_op.op = "get") =>
        LET h == last_op.held[last_op.session]
        IN last_op.result = IF h = NotSaved THEN <<>> ELSE MostRecent(h.turns)

\* C16, amended: the same, for a get_conversation whose connection and Redis
\* read succeed
C16_RoundTripWhenReachable ==
    (last_op # NoOp /\ last_op.op = "get" /\ last_op.connected /\ last_op.error = "none") =>
        LET h == last_op.held[last_op.session]
        IN last_op.result = IF h = NotSaved THEN <<>> ELSE MostRecent(h.turns)

\* a history longer than MAX_CONVERSATION_TURNS was saved and read back
C16_Witness ==
    /\ last_op # NoOp /\ last_op.op = "get" /\ last_op.error = "none"
    /\ last_op.held[last_op.session] # NotSaved
    /\ Len(last_op.held[last_op.session].turns) > MAX_CONVERSATION_TURNS
    /\ Len(last_op.result) = MAX_CONVERSATION_TURNS
(***************************************************************************)
(* Sessions                                                                *)
(***************************************************************************)
\* C14: a step that handles session A (a webhook request reading, appending
\* and storing, or clearing; save_conversation, get_conversation or
\* delete_conversation of the Redis store) leaves the stored history and the
\* activity stamp of every other session B as they were and uses no key of B,
\* whatever other requests are in flight
C14_SessionsPartitioned ==
    [][ /\ (op_count' # op_count /\ last_op'.at = op_count
                /\ last_op'.op \in {"save", "get", "delete"}) =>
              \A b \in StoreSessions \ {last_op'.session} :
                  /\ redis_data'[get_conversation_key(b)] = redis_data[get_conversation_key(b)]
                  /\ redis_data'[activity_key(b)] = redis_data[activity_key(b)]
                  /\ saved'[b] = saved[b]
                  /\ last_op'.keys \cap {get_conversation_key(b), activity_key(b)} = {}
        /\ (last_request' # last_request) =>
              \A b \in WebhookSessions \ {last_request'.session_id} :
                  /\ StoredHistory(conversation_memory', lists', b)
                        = StoredHistory(conversation_memory, lists, b)
                  /\ b \notin last_request'.keys
                  /\ \A q \in DOMAIN requests :
                        (requests[q].stage = "processing" /\ requests[q].session_id = b)
                            => lists'[requests[q].conversation_history]
                                  = lists[requests[q].conversation_history]
      ]_vars

\* a request of one session is answered and its turn stored while a request
\* of another session, which has a stored history, is still being processed
C14_Witness ==
    /\ last_request # NoRequest /\ last_request.op = "complete"
    /\ \E q \in DOMAIN requests :
          /\ requests[q].stage = "processing"
          /\ requests[q].session_id # last_request.session_id
          /\ q < last_request.r
          /\ conversation_memory[requests[q].session_id] # NoKey

\* the same for the Redis store: a save for one session while the other
\* session has a stored history
C14_StoreCase ==
    /\ last_op # NoOp /\ last_op.op = "save" /\ last_op.result = TRUE
    /\ \E b \in StoreSessions \ {last_op.session} : saved[b] # NotSaved

(***************************************************************************)
(* Errors in the webhook                                                   *)
(***************************************************************************)
FailedRequests ==
    {r \in DOMAIN requests : requests[r].stage = "answered" /\ requests[r].outcome = "raised"}
ApologyTexts == {<<ERROR_MESSAGE>>, <<HTTP_ERROR_MESSAGE>>}
\* the failed request left the stored history of its session as it was, and
\* no list holds a turn of it
HistoryLeftAlone(r) ==
    /\ \A i \in DOMAIN lists : \A k \in DOMAIN lists[i] :
          lists[i][k].timestamp # requests[r].MessageSid
    /\ (last_request.op = "fail" /\ last_request.r = r) =>
          StoredHistory(conversation_memory, lists, requests[r].session_id)
              = requests[r].stored_before

ExecutorCompleted == executor_calls = 1 /\ pc # "invoke" /\ raised_at # "invoke"
\* the tool calls of the pass hold a knowledge lookup whose result is empty
EmptyRetrieval ==
    \E i \in DOMAIN tool_trace :
        tool_trace[i].tool = "get_kavak_info" /\ tool_trace[i].observation = ""
\* the final text of the tool-augmented call is empty or whitespace-only
EmptyFinalText ==
    LET output == agent_executor_response.output
    IN \/ ~Truthy(output)
       \/ output.type = "str" /\ \A i \in 1..Len(output.s) : IsSpace(CharAt(output.s, i))
\* the pass is beyond the point where the direct call is made
PastDirectCall == pc \notin {"build", "invoke", "inspect", "direct"}

\* C18: the direct model call is issued exactly when the tool-augmented call
\* has completed, its tool calls hold a get_kavak_info call with an empty
\* result, and its final text is empty or whitespace-only; it is issued at
\* most once, and only after the tool-augmented call has returned
C18_DirectCallIffUnresolvedRetrieval ==
    /\ llm_calls <= 1 /\ executor_calls <= 1
    /\ (pc = "direct" \/ llm_calls = 1) =>
          (ExecutorCompleted /\ EmptyRetrieval /\ EmptyFinalText)
    /\ (PastDirectCall /\ ExecutorCompleted /\ EmptyRetrieval /\ EmptyFinalText) =>
          llm_calls = 1
\* the final candidate answer of a pass that raised nothing is empty
EmptyFinalCandidate ==
    pc = "done" /\ raised_at = "none" /\ EmptyCheck(agent_final_output) = "true"
\* the template the keywords of the user message select
TemplateFor(original_message) ==
    LET lowered == Lower(original_message)
    IN IF \E w \in {"hola", "hello", "hi"} : Contains(lowered, w) THEN fallback_responses[1]
       ELSE IF \E w \in {"error", "problema"} : Contains(lowered, w) THEN fallback_responses[2]
       ELSE fallback_responses[3]

\* C19: when the final candidate answer of a pass is empty or whitespace-only,
\* process_message returns the fallback template its keywords select: the
\* greeting template, the apology template for an error keyword, the
\* ask-for-budget template otherwise
C19_EmptyAnswerGivesKeywordTemplate ==
    EmptyFinalCandidate => returned = TemplateFor(message)

\* the candidate texts of a pass: the model's text and the canned answers
SurvivingCandidates ==
    (IF agent_final_output.type = "str" THEN {agent_final_output.s} ELSE {})
        \cup {EMPTY_RESPONSE} \cup {fallback_responses[i] : i \in DOMAIN fallback_responses}

\* C20: what process_message returns is the output of _optimize_for_whatsapp
\* for the candidate that survived: the model's text or a canned answer
C20_ReturnIsFormatted ==
    pc = "done" => \E candidate \in SurvivingCandidates :
                      returned = _optimize_for_whatsapp(candidate)
(***************************************************************************)
(* Termination of a pass (SpecAgentLive)                                   *)
(***************************************************************************)
\* C21: every pass of process_message ends with a returned text: the
\* tool-augmented call makes at most max_iterations tool rounds, at most one
\* direct call follows, each model is called at most once, and the pass
\* eventually is done and stays done
C21_PassTerminates ==
    /\ [](Len(tool_trace) <= max_iterations /\ executor_calls <= 1 /\ llm_calls <= 1)
    /\ <>[](pc = "done" /\ returned # "")

\* a pass that used every tool round and the direct call has returned
C21_Witness ==
    pc = "done" /\ Len(tool_trace) = max_iterations /\ llm_calls = 1 /\ returned # ""
(***************************************************************************)
(* The canned answer (SpecFallback)                                        *)
(***************************************************************************)
\* the lower-cased message holds the word somewhere
HasWord(msg, words) ==
    \E w \in words : \E i \in 1..(Len(msg) - Len(w) + 1) :
        Lower(SubSeq(msg, i, i + Len(w) - 1)) = w
GreetingWords == {"hola", "hello", "hi"}
ErrorWords == {"error", "problema"}

\* C22: for every message _get_fallback_response returns one of the three
\* fixed templates, none of them empty: the greeting template when the
\* message holds a greeting word, whether or not it holds an error keyword;
\* else the apology template when it holds an error keyword; else the
\* ask-for-budget template
C22_FallbackTotalAndPrioritised ==
    Returned =>
        /\ returned \in {fallback_responses[i] : i \in DOMAIN fallback_responses}
        /\ returned # ""
        /\ Cardinality({fallback_responses[i] : i \in DOMAIN fallback_responses}) = 3
        /\ HasWord(message, GreetingWords) => returned = fallback_responses[1]
        /\ (~HasWord(message, GreetingWords) /\ HasWord(message, ErrorWords))
              => returned = fallback_responses[2]
        /\ (~HasWord(message, GreetingWords) /\ ~HasWord(message, ErrorWords))
              => returned = fallback_responses[3]

\* a message with an error keyword before a greeting word got the greeting template
C22_Witness ==
    /\ Returned /\ returned = fallback_responses[1]
    /\ HasWord(message, ErrorWords) /\ HasWord(message, GreetingWords)
    /\ StartsWith(message, "Problema")
(***************************************************************************)
(* Truncation and emoji injection (SpecFormat)                             *)
(***************************************************************************)
EndsWith(s, suffix) ==
    Len(suffix) <= Len(s) /\ SubSeq(s, Len(s) - Len(suffix) + 1, Len(s)) = suffix
\* the places of the periods before position maxLength - reservedSuffixLength
PeriodsBeforeLimit(t) ==
    {i \in 1..Min(Len(t), RESPONSE_MAX_LENGTH - RESERVED_SUFFIX_LENGTH) : CharAt(t, i) = "."}
\* the prefixes the rule keeps: up to the last such period (with or without
\* the period itself), or the hard cut when there is none
KeptPrefixes(t) ==
    IF PeriodsBeforeLimit(t) = {}
    THEN {SubSeq(t, 1, RESPONSE_MAX_LENGTH - RESERVED_SUFFIX_LENGTH)}
    ELSE LET last == CHOOSE i \in PeriodsBeforeLimit(t) : \A j \in PeriodsBeforeLimit(t) : j <= i
         IN {SubSeq(t, 1, last), SubSeq(t, 1, last - 1)}

\* C23: a text longer than RESPONSE_MAX_LENGTH is cut at the last period
\* before position RESPONSE_MAX_LENGTH - RESERVED_SUFFIX_LENGTH, or at that
\* position when no period precedes it, and the continuation prompt follows
\* the kept prefix
C23_CutAtLastPeriod ==
    (Returned /\ Len(text) > RESPONSE_MAX_LENGTH) =>
        \E kept \in KeptPrefixes(text) : EndsWith(formatted, kept \o ContinuationPrompt)
\* the ordered rule list of the emoji injection: vehicle, money, search words
EmojiRules == <<[words |-> {"auto", "carro", "veh$/culo"}, emoji |-> EMOJI_CAR],
                [words |-> {"precio", "pago", "financiamiento"}, emoji |-> EMOJI_MONEY],
                [words |-> {"buscar", "encontrar"}, emoji |-> EMOJI_SEARCH]>>
MatchingRules(t) == {i \in 1..Len(EmojiRules) : ContainsAny(Lower(t), EmojiRules[i].words)}
FirstRuleEmoji(t) ==
    IF MatchingRules(t) = {} THEN EMOJI_HAPPY
    ELSE EmojiRules[CHOOSE i \in MatchingRules(t) : \A j \in MatchingRules(t) : i <= j].emoji

\* C24: the formatter prepends exactly one emoji, the one of the first
\* matching rule (vehicle, money, search, else the happy emoji), exactly when
\* the text after truncation holds none of the fixed emojis, and leaves the
\* text as it is otherwise
C24_EmojiByFirstMatchingRule ==
    Returned =>
        LET t == Truncate(text)
        IN IF \E e \in EmojiSet : Contains(t, e)
           THEN formatted = t
           ELSE /\ formatted = FirstRuleEmoji(t) \o " " \o t
                /\ Cardinality({i \in 1..Len(formatted) : CharAt(formatted, i) \in EmojiSet}) = 1
C24_Witness ==
    /\ Returned
    /\ Contains(Lower(text), "carro") /\ Contains(Lower(text), "precio")
    /\ Len(text) < RESPONSE_MAX_LENGTH
    /\ formatted = EMOJI_CAR \o " " \o text
\* C29: formatting is idempotent: formatting the formatted text again gives
\* it back unchanged
C29_FormatIdempotent ==
    Returned => _optimize_for_whatsapp(formatted) = formatted
(***************************************************************************)
(* Rule order of the Typo Corrector (SpecCorrect)                          *)
(***************************************************************************)
\* the rules of a table that match and have no matching rule before them
FirstBrandRules(t) ==
    {i \in 1..Len(brand_typos) :
        /\ BrandTypoMatches(brand_typos[i][1], t)
        /\ \A j \in 1..(i - 1) : ~BrandTypoMatches(brand_typos[j][1], t)}
AfterBrandRules(t) ==
    IF FirstBrandRules(t) = {} THEN t
    ELSE LET i == CHOOSE i \in FirstBrandRules(t) : TRUE
         IN BrandTypoSub(brand_typos[i][1], brand_typos[i][2], t)
FirstModelRules(t) ==
    {i \in 1..Len(model_typos) :
        /\ ModelTypoMatches(model_typos[i][1], t)
        /\ \A j \in 1..(i - 1) : ~ModelTypoMatches(model_typos[j][1], t)}

\* C25: the brand rules are tried first in table order and the first that
\* matches is the only one applied; the model rules are then tried in table
\* order on the resulting token and the first that matches gives the result;
\* a normalized token that matches no rule is returned unchanged
C25_FirstMatchingRuleWins ==
    Returned =>
        LET t == Lower(token)
            after == AfterBrandRules(t)
        IN /\ FirstModelRules(after) # {} =>
                 corrected = model_typos[CHOOSE i \in FirstModelRules(after) : TRUE][2]
           /\ FirstModelRules(after) = {} => corrected = after
           /\ (FirstBrandRules(t) = {} /\ FirstModelRules(t) = {} /\ t = token) =>
                 corrected = token
C25_Witness ==
    /\ Returned
    /\ token = "volks" /\ FirstBrandRules(token) = {5}
    /\ corrected = "volkswagen"
C25_ModelRuleCase ==
    Returned /\ token = "civic lx" /\ FirstModelRules(token) = {1} /\ corrected = "civic"
C25_UnmatchedCase ==
    Returned /\ token = "yaris" /\ corrected = "yaris"
(***************************************************************************)
(* Order of the listed entries (SpecBudget)                                *)
(***************************************************************************)
\* the listings the budget search can give for a catalog and a query
PossibleListings(rows, price, brand_arg) ==
    {HeadRows(sorted, TOP_N) : sorted \in sort_values_price(BudgetFiltered(rows, price, brand_arg))}

\* C26: the listed entries are ascending by price, and the catalog and the
\* query alone fix the order of the entries of equal price and with it the
\* members of the listing
C26_ListingDetermined ==
    Returned =>
        /\ \A i \in 1..(Len(found) - 1) : found[i].price <= found[i + 1].price
        /\ \A listing \in PossibleListings(df, max_price, brand) :
              /\ RowsOf(listing) = RowsOf(found)
              /\ listing = found
\* a listing that leaves out an entry another listing of the same query holds
C26_MembersDiffer ==
    /\ Returned /\ Len(found) = TOP_N
    /\ \E listing \in PossibleListings(df, max_price, brand) : RowsOf(listing) # RowsOf(found)
(***************************************************************************)
(* Requests of one session in flight together (SpecWebhook)                *)
(***************************************************************************)
\* the requests the webhook has answered with the agent's text
ReturnedRequests ==
    {r \in DOMAIN requests : requests[r].stage = "answered" /\ requests[r].outcome = "returned"}
\* the turns stored for a session
StoredTurns(session_id) ==
    LET stored == StoredHistory(conversation_memory, lists, session_id)
    IN IF stored = NotSaved THEN {} ELSE {stored.turns[i] : i \in DOMAIN stored.turns}
HoldsTurnOf(session_id, r) ==
    \E turn \in StoredTurns(session_id) : turn.timestamp = requests[r].MessageSid
NeverCleared(session_id) ==
    \A r \in DOMAIN requests :
        ~(requests[r].stage = "answered" /\ requests[r].outcome = "cleared"
            /\ requests[r].session_id = session_id)

\* C28: when two requests of one session have both been answered, the
\* stored history of the session holds the turn of each, whether or not
\* they were in flight together and whether or not the session had a
\* history before
C28_NoLostUpdate ==
    \A r, q \in ReturnedRequests :
        (r # q /\ requests[r].session_id = requests[q].session_id
            /\ NeverCleared(requests[r].session_id)) =>
            /\ HoldsTurnOf(requests[r].session_id, r)
            /\ HoldsTurnOf(requests[r].session_id, q)
\* two requests in flight together for a session with a stored history: the
\* turns of both are kept
C28_KeptWithHistory ==
    /\ ReturnedRequests = {1, 2}
    /\ requests[1].session_id = requests[2].session_id
    /\ requests[1].conversation_history = requests[2].conversation_history
    /\ HoldsTurnOf(requests[1].session_id, 1) /\ HoldsTurnOf(requests[1].session_id, 2)
(***************************************************************************)
(* The history window (SpecHistory)                                        *)
(***************************************************************************)
\* the last min(len(h), n) turns of h, oldest first
LastN(h, n) ==
    LET k == Min(Len(h), n)
    IN [i \in 1..k |-> h[Len(h) - k + i]]
\* the history the webhook holds for a session is within the window, and
\* after a request has stored its turn it is the end of the list the request
\* appended to, the request's turn last
WebhookWindowed ==
    pc = "serving" =>
        /\ \A s \in WebhookSessions :
              LET stored == StoredHistory(conversation_memory, lists, s)
              IN stored # NotSaved => Len(stored.turns) <= WEBHOOK_WINDOW
        /\ (last_request # NoRequest /\ last_request.op = "complete") =>
              LET req == requests[last_request.r]
                  appended == lists[req.conversation_history]
                  stored == StoredHistory(conversation_memory, lists, req.session_id)
              IN /\ stored # NotSaved
                 /\ stored.turns = LastN(appended, WEBHOOK_WINDOW)
                 /\ stored.turns[Len(stored.turns)].timestamp = req.MessageSid
\* the history Redis holds for a session is the end of the history last saved
StoreWindowed ==
    pc \in {"new", "ready"} =>
        \A s \in StoreSessions :
            saved[s] # NotSaved =>
                /\ redis_data[get_conversation_key(s)] # Absent
                /\ loads(redis_data[get_conversation_key(s)])
                      = LastN(saved[s].turns, MAX_CONVERSATION_TURNS)
\* the context built from a history: the turns of its end that hold both
\* texts, oldest first, the user's text and then the agent's
ContextWindowed ==
    pc = "invoke" =>
        LET used == SelectSeq(LastN(conversation_history, HISTORY_WINDOW), HasBothKeys)
        IN /\ Len(chat_history_for_agent) = 2 * Len(used)
           /\ \A k \in 1..Len(used) :
                 /\ chat_history_for_agent[2 * k - 1]
                       = [role |-> "human", content |-> used[k].user]
                 /\ chat_history_for_agent[2 * k]
                       = [role |-> "ai", content |-> used[k].agent]

C27_WebhookCase ==
    /\ pc = "serving" /\ last_request # NoRequest /\ last_request.op = "complete"
    /\ Len(lists[requests[last_request.r].conversation_history]) > WEBHOOK_WINDOW
    /\ Len(StoredHistory(conversation_memory, lists, last_request.session_id).turns)
          = WEBHOOK_WINDOW
\* a history of 12 turns is saved: Redis holds its last 10
C27_StoreCase ==
    /\ pc = "ready"
    /\ \E s \in StoreSessions :
          /\ saved[s] # NotSaved /\ Len(saved[s].turns) > MAX_CONVERSATION_TURNS
          /\ Len(loads(redis_data[get_conversation_key(s)])) = MAX_CONVERSATION_TURNS
(***************************************************************************)
(* The listing of the sessions (SpecStore)                                 *)
(***************************************************************************)
\* a step in which list_active_sessions is called
ListingStep == op_count' # op_count /\ last_op'.op = "list" /\ last_op'.at = op_count
\* the timestamp of a session's activity key
ActivityOf(data, s) == IF data[activity_key(s)] = Absent THEN 0 ELSE data[activity_key(s)].ts

\* C30: list_active_sessions only reads: the conversation and the activity
\* timestamp of every key (and with them the time the keys have left) are
\* after the call what they were before it, and the last_activity it reports
\* for a session is the timestamp the session had before the call
C30_ListingReadOnly ==
    [][ListingStep =>
          /\ redis_data' = redis_data
          /\ \A s \in DOMAIN last_op'.result :
                last_op'.result[s].last_activity = ActivityOf(redis_data, s)]_vars
====
